---- MODULE Spec2Model ----
(***************************************************************************)
(* Surge and resource forecasting engine of eco-health-ai.                 *)
(*                                                                         *)
(* The components are modelled, each with its own specification over its  *)
(* own variables (the other components' variables stay idle):              *)
(*   SpecSurge      models/surge_predictor.py   SurgePredictor.predict     *)
(*   SpecBreakdown  scripts/continuous_surge_monitor.py                    *)
(*                  calculate_admission_breakdown                          *)
(*   SpecAgent      agent/resource_recommendation_agent.py                 *)
(*                  calculate_resource_priority, calculate_supply_needs    *)
(*   SpecPool       agent/resource_recommendation_agent.py                 *)
(*                  generate_multi_hospital_recommendations                *)
(*   SpecService    services/resource_service.py                           *)
(*                  ResourceService.calculate_supply_needs                 *)
(*   SpecAccumulator  data_generators/data_accumulator.py                  *)
(*                  DataAccumulatorAgent.generate_daily_data               *)
(*   SpecGenerator  data_generators/patient_surge_generator.py             *)
(*                  PatientSurgeGenerator._generate_disease_distribution   *)
(*   SpecPredictCall  models/surge_predictor.py   predict, step by step    *)
(* SpecProcurement, SpecDecomposition and SpecAqiTiers put together the    *)
(* components that a claim compares.                                       *)
(*                                                                         *)
(* Numbers.  Python computes these quantities in binary64 floating point.  *)
(* The model uses integers in fixed units: a surge multiplier is held in   *)
(* thousandths while it is accumulated and in hundredths once rounded,     *)
(* percentages are whole percent points, per-patient rates are hundredths. *)
(* Where the binary representation changes what int() returns, the place   *)
(* says how the model accounts for it.                                     *)
(***************************************************************************)
EXTENDS Integers, Sequences, FiniteSets, TLC

VARIABLES
    model,          \* SurgePredictor.model: "gemini" or "None"
    call,           \* arguments of the latest SurgePredictor.predict call
    changed,        \* which argument differs from the call before
    outcome,        \* what the text-generation collaborator did in that call
    result,         \* the dict predict returned
    bd_call,        \* arguments of the latest calculate_admission_breakdown call
    bd_changed,     \* which argument differs from the call before
    bd_result,      \* the dict calculate_admission_breakdown returned
    pr_call,        \* arguments of a calculate_resource_priority call
    pr_pc,          \* "called" until it returns, then "returned"
    pr_result,      \* its return value
    ag_call,        \* arguments of an agent calculate_supply_needs call
    ag_pc,          \* "called" until it returns or raises, then "returned"
    ag_result,      \* its outcome: whether it raised, and the plan returned
    inventory_data, \* ResourceService.inventory_data, loaded at construction
    sv_call,        \* arguments of a ResourceService.calculate_supply_needs call
    sv_pc,          \* "called" until it returns, then "returned"
    sv_result,      \* the supplies_status list it returned
    pool_call,      \* hospitals_data of a generate_multi_hospital_recommendations call
    pool_pc,        \* "called" until it returns, then "returned"
    pool_result,    \* the dict it returned
    da_model,       \* DataAccumulatorAgent.model: "gemini" or "None"
    da_call,        \* the inputs of one day of generate_daily_data
    da_pc,          \* "called" until the day's record is appended
    da_result,      \* the record appended for that day
    psg_call,       \* arguments of a _generate_disease_distribution call
    psg_pc,         \* "called" until it returns, then "returned"
    psg_result,     \* the dict it returned
    lp_model,       \* SurgePredictor.model of the predictor followed step by step
    lp_call,        \* arguments of its predict call
    lp_pc,          \* "called", "waiting" (inside generate_content), "returned"
    lp_result,      \* the dict predict returned
    cl_call,        \* a surge multiplier handed to the severity classifiers
    cl_result,      \* the tier each classifier has returned for it so far
    cp_call,        \* arguments of a generate_comprehensive_resource_plan call
    cp_pc,          \* "called" until it returns, then "returned"
    cp_result,      \* the plan it returned
    mon_pc,         \* "loop" while the continuous monitor runs
    mon_iteration,  \* the monitor's iteration counter
    mon_csv,        \* the rows of the predictions CSV, in file order
    mon_result      \* what get_latest_surge_data returned last

surgeVars == <<model, call, changed, outcome, result>>

bdVars == <<bd_call, bd_changed, bd_result>>

prVars == <<pr_call, pr_pc, pr_result>>

agVars == <<ag_call, ag_pc, ag_result>>

svVars == <<inventory_data, sv_call, sv_pc, sv_result>>

poolVars == <<pool_call, pool_pc, pool_result>>

daVars == <<da_model, da_call, da_pc, da_result>>

psgVars == <<psg_call, psg_pc, psg_result>>

lpVars == <<lp_model, lp_call, lp_pc, lp_result>>

clVars == <<cl_call, cl_result>>

cpVars == <<cp_call, cp_pc, cp_result>>

monVars == <<mon_pc, mon_iteration, mon_csv, mon_result>>

vars == <<surgeVars, bdVars, prVars, agVars, svVars, poolVars, daVars, psgVars,
          lpVars, clVars, cpVars, monVars>>

--------------------------------------------------------------------------
(* Generic helpers                                                         *)

Max(a, b) == IF a >= b THEN a ELSE b

Min(a, b) == IF a <= b THEN a ELSE b

\* dict.get(key, default)
Get(d, key, default) == IF key \in DOMAIN d THEN d[key] ELSE default

--------------------------------------------------------------------------
(* SurgePredictor                                                          *)

\* Longest event list passed to predict.
MaxEvents == 1

AqiValues == {200, 201, 300, 301, 400, 401, 450}

RainValues == {10, 11, 50, 51}

TempValues == {36, 37}

EventNames == {"Diwali", "Monsoon Season", "Holi"}

Dates == {"2025-11-01"}

\* A weather mapping may lack either key (the monitor passes {} when the
\* forecast has no entry for the date).
\* A dry, mild day.
MildWeather == [ max_temp |-> 30, rainfall |-> 0 ]

Weathers ==
    { [k \in K |-> IF k = "rainfall" THEN r ELSE t] :
        K \in SUBSET {"max_temp", "rainfall"}, r \in RainValues, t \in TempValues }
    \cup { MildWeather }

EventLists == UNION { [1..n -> EventNames] : n \in 0..MaxEvents }

\* Texts the collaborator may answer with (response.text.strip()).
GeneratedTexts == { <<"High respiratory load due to severe smog">>,
                    <<"Festival crowds raise trauma admissions">> }

\* generate_content either returns a text or raises.
LlmOutcomes == { [raises |-> FALSE, text |-> t] : t \in GeneratedTexts }
               \cup { [raises |-> TRUE, text |-> <<>>] }

NotCalled == [raises |-> FALSE, text |-> <<>>]

NoCall == [ date |-> "", aqi |-> 0, weather |-> <<>>, events |-> <<>> ]

NoResult == [ multiplier |-> 0, severity |-> "", risk_factors |-> <<>>,
              narrative |-> <<>> ]

\* f"Severe AQI ({aqi:.0f})" and the like: a label is the sequence of its pieces.
Label(text, value) == <<text, " (", value, ")">>

\* ", ".join(risk_factors)
RECURSIVE Join(_)
Join(labels) ==
    IF labels = <<>> THEN <<>>
    ELSE IF Len(labels) = 1 THEN Head(labels)
    ELSE Head(labels) \o <<", ">> \o Join(Tail(labels))

\* AqiBoost with the severe tier mistyped as 0.05.
AqiBoost_typo(aqi) ==
    IF aqi > 400 THEN 50
    ELSE IF aqi > 300 THEN 200
    ELSE IF aqi > 200 THEN 100
    ELSE 0

\* 1. AQI factor: thousandths added to the multiplier.
AqiBoost(aqi) ==
    IF aqi > 400 THEN 500
    ELSE IF aqi > 300 THEN 200
    ELSE IF aqi > 200 THEN 100
    ELSE 0

AqiLabels(aqi) ==
    IF aqi > 400 THEN << Label("Severe AQI", ToString(aqi)) >>
    ELSE IF aqi > 300 THEN << Label("Very Poor AQI", ToString(aqi)) >>
    ELSE IF aqi > 200 THEN << Label("Poor AQI", ToString(aqi)) >>
    ELSE <<>>

\* 2. Weather factor.
RainBoost(rainfall) ==
    IF rainfall > 50 THEN 300
    ELSE IF rainfall > 10 THEN 100
    ELSE 0

RainLabels(rainfall) ==
    IF rainfall > 50 THEN << Label("Heavy Rainfall", ToString(rainfall)) >> ELSE <<>>

\* TempBoost with the comparison made inclusive.
TempBoost_inclusive(max_temp) == IF max_temp >= 36 THEN 200 ELSE 0

TempBoost(max_temp) == IF max_temp > 36 THEN 200 ELSE 0

TempLabels(max_temp) ==
    IF max_temp > 36 THEN << Label("Extreme Heat", ToString(max_temp)) >> ELSE <<>>

\* 3. Event factor: the loop over events.
MajorFestivals == {"Diwali", "Ganesh Chaturthi"}

RECURSIVE EventBoost(_)
EventBoost(events) ==
    IF events = <<>> THEN 0
    ELSE (IF Head(events) \in MajorFestivals THEN 300
          ELSE IF Head(events) = "Monsoon Season" THEN 100
          ELSE 0) + EventBoost(Tail(events))

RECURSIVE EventLabels(_)
EventLabels(events) ==
    IF events = <<>> THEN <<>>
    ELSE (IF Head(events) \in MajorFestivals
          THEN << Label("Major Festival", Head(events)) >>
          ELSE <<>>) \o EventLabels(Tail(events))

\* The running multiplier before rounding, in thousandths (base 1.0).
RawMultiplier(aqi, weather, events) ==
    1000 + AqiBoost(aqi)
         + RainBoost(Get(weather, "rainfall", 0))
         + TempBoost(Get(weather, "max_temp", 0))
         + EventBoost(events)

RiskFactors(aqi, weather, events) ==
    AqiLabels(aqi) \o RainLabels(Get(weather, "rainfall", 0))
                   \o TempLabels(Get(weather, "max_temp", 0))
                   \o EventLabels(events)

\* Severity with strict comparisons.
Severity_strict(m) ==
    IF m > 2000 THEN "critical"
    ELSE IF m > 1700 THEN "major"
    ELSE IF m > 1400 THEN "moderate"
    ELSE IF m > 1200 THEN "minor"
    ELSE "none"

\* Determine Severity, on the unrounded multiplier (thousandths).
Severity(m) ==
    IF m >= 2000 THEN "critical"
    ELSE IF m >= 1700 THEN "major"
    ELSE IF m >= 1400 THEN "moderate"
    ELSE IF m >= 1200 THEN "minor"
    ELSE "none"

\* round(multiplier, 2): thousandths to the nearest hundredth.
Round2(m) == (m + 5) \div 10

\* Whether predict calls the collaborator.
CallsCollaborator(self_model, m, risk_factors) ==
    self_model # "None" /\ (m > 1100 \/ risk_factors # <<>>)

\* 4. Narrative.
Narrative(self_model, m, risk_factors, llm) ==
    IF CallsCollaborator(self_model, m, risk_factors)
    THEN IF llm.raises
         THEN IF risk_factors # <<>> THEN Join(risk_factors)
              ELSE <<"Elevated risk detected">>
         ELSE llm.text
    ELSE <<"Normal operations">>

\* predict giving up on the numbers when the collaborator fails.
predict_reset(self_model, date_str, aqi, weather, events, llm) ==
    LET m  == RawMultiplier(aqi, weather, events)
        rf == RiskFactors(aqi, weather, events)
    IN  IF llm.raises
        THEN [ multiplier |-> 100, severity |-> "none", risk_factors |-> <<>>,
               narrative |-> <<"Normal operations">> ]
        ELSE [ multiplier   |-> Round2(m),
               severity     |-> Severity(m),
               risk_factors |-> rf,
               narrative    |-> Narrative(self_model, m, rf, llm) ]

predict(self_model, date_str, aqi, weather, events, llm) ==
    LET m  == RawMultiplier(aqi, weather, events)
        rf == RiskFactors(aqi, weather, events)
    IN  [ multiplier   |-> Round2(m),
          severity     |-> Severity(m),
          risk_factors |-> rf,
          narrative    |-> Narrative(self_model, m, rf, llm) ]

Calls == [ date : Dates, aqi : AqiValues, weather : Weathers, events : EventLists ]

ArgNames == {"date", "aqi", "weather", "events"}

ArgValues(a) ==
    CASE a = "date" -> Dates
      [] a = "aqi" -> AqiValues
      [] a = "weather" -> Weathers
      [] a = "events" -> EventLists

\* What the collaborator can do in a call: nothing when it is not called.
Outcomes(self_model, c) ==
    IF CallsCollaborator(self_model, RawMultiplier(c.aqi, c.weather, c.events),
                         RiskFactors(c.aqi, c.weather, c.events))
    THEN LlmOutcomes ELSE {NotCalled}

\* SurgePredictor.__init__ and the first call: the collaborator is configured
\* iff GEMINI_API_KEY is set.
SurgeInit ==
    /\ model \in {"gemini", "None"}
    /\ call \in Calls
    /\ changed = "first"
    /\ outcome \in Outcomes(model, call)
    /\ result = predict(model, call.date, call.aqi, call.weather, call.events,
                        outcome)

\* One further call of predict.  Successive calls differ in at most one
\* argument (every argument combination stays reachable).
Predict ==
    /\ changed # "idle"
    /\ \E a \in ArgNames \cup {"none"} :
      \E c \in IF a = "none" THEN {call}
                ELSE { [call EXCEPT ![a] = v] : v \in ArgValues(a) \ {call[a]} } :
        \E llm \in Outcomes(model, c) :
            /\ call' = c
            /\ changed' = a
            /\ outcome' = llm
            /\ result' = predict(model, c.date, c.aqi, c.weather, c.events, llm)
            /\ UNCHANGED <<model, bdVars, prVars, agVars, svVars, poolVars, daVars, psgVars, lpVars, clVars, cpVars, monVars>>

--------------------------------------------------------------------------
(* calculate_admission_breakdown                                           *)

\* Largest total_admissions passed to calculate_admission_breakdown.
MaxAdmissions == 50

BdAqiValues == {200, 201}

BdWeathers ==
    { [k \in K |-> IF k = "rainfall" THEN r ELSE t] :
        K \in SUBSET {"max_temp", "rainfall"}, r \in {30, 31}, t \in {35, 36} }

BdEventLists == { <<>>, <<"Holi">> }

BdCalls == [ total : 0..MaxAdmissions, aqi : BdAqiValues, weather : BdWeathers,
             events : BdEventLists ]

\* The four adjusted percentages, in percent points:
\* <<respiratory, waterborne, heat, trauma>>.
AdjustedPcts(aqi, weather, events) ==
    << 15 + (IF aqi > 200 THEN 10 ELSE 0),
       10 + (IF Get(weather, "rainfall", 0) > 30 THEN 10 ELSE 0),
       5  + (IF Get(weather, "max_temp", 0) > 35 THEN 8 ELSE 0),
       20 + (IF events # <<>> THEN 12 ELSE 0) >>

\* other_pct = max(0, 1 - total_pct), in percent points.
OtherPct(p) == Max(0, 100 - (p[1] + p[2] + p[3] + p[4]))

\* binary64: for these weights the float 1 - total_pct lies more than one
\* unit in the last place below the decimal remainder (0.41999999999999993
\* for 0.42, 0.19999999999999996 for 0.20, 0.17999999999999994 for 0.18,
\* 0.21999999999999997 for 0.22, 0.09999999999999987 for 0.10); for the
\* other weights it is the nearest float or above it.
OtherPctBelow(p) ==
    p \in { <<15, 10, 13, 20>>, <<15, 20, 13, 32>>, <<25, 10, 13, 32>>,
            <<25, 20, 5, 32>>, <<25, 20, 13, 20>>, <<25, 20, 13, 32>> }

\* int(total_admissions * pct).  When the float pct lies below its decimal
\* value, a product that would be a whole number falls just short of it and
\* truncates to one less.
IntOfShare(n, pct, below) ==
    IF below /\ n * pct > 0 /\ (n * pct) % 100 = 0
    THEN (n * pct) \div 100 - 1
    ELSE (n * pct) \div 100

calculate_admission_breakdown(total_admissions, aqi, weather, events) ==
    LET p == AdjustedPcts(aqi, weather, events)
    IN  [ respiratory |-> IntOfShare(total_admissions, p[1], FALSE),
          waterborne  |-> IntOfShare(total_admissions, p[2], FALSE),
          heat        |-> IntOfShare(total_admissions, p[3], FALSE),
          trauma      |-> IntOfShare(total_admissions, p[4], FALSE),
          other       |-> IntOfShare(total_admissions, OtherPct(p),
                                     OtherPctBelow(p)) ]

BdArgValues(a) ==
    CASE a = "total" -> 0..MaxAdmissions
      [] a = "aqi" -> BdAqiValues
      [] a = "weather" -> BdWeathers
      [] a = "events" -> BdEventLists

BreakdownInit ==
    /\ bd_call \in BdCalls
    /\ bd_changed = "first"
    /\ bd_result = calculate_admission_breakdown(bd_call.total, bd_call.aqi,
                                                 bd_call.weather, bd_call.events)

\* One further call of calculate_admission_breakdown (successive calls differ
\* in at most one argument).
Breakdown ==
    /\ bd_changed # "idle"
    /\ \E a \in {"total", "aqi", "weather", "events", "none"} :
      \E c \in IF a = "none" THEN {bd_call}
                ELSE { [bd_call EXCEPT ![a] = v] :
                         v \in BdArgValues(a) \ {bd_call[a]} } :
        /\ bd_call' = c
        /\ bd_changed' = a
        /\ bd_result' = calculate_admission_breakdown(c.total, c.aqi, c.weather,
                                                      c.events)
        /\ UNCHANGED <<surgeVars, prVars, agVars, svVars, poolVars, daVars,
                       psgVars, lpVars, clVars, cpVars, monVars>>

--------------------------------------------------------------------------
(* ResourceRecommendationAgent: priority and supply procurement            *)

\* Rationals, kept in lowest terms: [num, den] with den > 0.
RECURSIVE Gcd(_, _)
Gcd(a, b) == IF b = 0 THEN a ELSE Gcd(b, a % b)

Abs(a) == IF a < 0 THEN -a ELSE a

Frac(n, d) ==
    LET g == Gcd(Abs(n), d)
    IN  [ num |-> n \div g, den |-> d \div g ]

FracMul(x, y) == Frac(x.num * y.num, x.den * y.den)

\* x < y: by whole parts first, then by the remainders.
FracLess(x, y) ==
    LET fx == x.num \div x.den
        fy == y.num \div y.den
    IN  \/ fx < fy
        \/ fx = fy /\ (x.num % x.den) * y.den < (y.num % y.den) * x.den

FracMax(x, y) == IF FracLess(x, y) THEN y ELSE x

FracMin(x, y) == IF FracLess(y, x) THEN y ELSE x

\* self.lead_times
lead_times ==
    [ doctors |-> 0, nurses |-> 0, support_staff |-> 1, ppe_kits |-> 2,
      oxygen_liters |-> 1, iv_fluids_ml |-> 2, medications_units |-> 3,
      bed_linens |-> 1 ]

\* self.inventory_buffer, in percent.
inventory_buffer == 15

\* The clinical_criticality table, in hundredths.
clinical_criticality ==
    [ doctors |-> 100, nurses |-> 100, oxygen_liters |-> 95,
      medications_units |-> 90, ppe_kits |-> 85, iv_fluids_ml |-> 85,
      beds_needed |-> 80, support_staff |-> 75, bed_linens |-> 60 ]

\* time_urgency with the lead time left out of the comparison.
time_urgency_nolead(lead_time, days_until_surge) ==
    IF days_until_surge <= 0 THEN Frac(1, 1)
    ELSE FracMax(Frac(0, 1), Frac(7 - (days_until_surge - lead_time), 7))

time_urgency(lead_time, days_until_surge) ==
    IF days_until_surge <= lead_time THEN Frac(1, 1)
    ELSE FracMax(Frac(0, 1), Frac(7 - (days_until_surge - lead_time), 7))

shortage_ratio(current_stock, required) ==
    IF required > 0
    THEN FracMax(Frac(0, 1), Frac(required - current_stock, required))
    ELSE Frac(0, 1)

calculate_resource_priority(resource_type, current_stock, required, days_until_surge) ==
    LET lead_time == Get(lead_times, resource_type, 0)
        criticality == Frac(Get(clinical_criticality, resource_type, 50), 100)
        priority == FracMul(FracMul(FracMul(Frac(100, 1),
                                shortage_ratio(current_stock, required)),
                                time_urgency(lead_time, days_until_surge)),
                            criticality)
    IN  FracMin(Frac(100, 1), priority)

\* Largest power of two not above p (p >= 1).
RECURSIVE Pow2Below(_)
Pow2Below(p) == IF p < 2 THEN 1 ELSE 2 * Pow2Below(p \div 2)

\* required * (1 + self.inventory_buffer) in binary64.  1 + 0.15 is the
\* float 1.15 - 0.8 * 2^-53.  A product whose exact value is the whole number
\* p is rounded to the float just below p when the shortfall, 0.8 * required
\* units of 2^-53, exceeds half the float spacing below p, 2^k units with
\* 2^k <= p < 2^(k+1); otherwise it is rounded to p.
BufferedIsBelow(required) ==
    LET p100 == required * (100 + inventory_buffer)
    IN  /\ p100 > 0 /\ p100 % 100 = 0
        /\ 4 * required > 5 * Pow2Below(p100 \div 100)

\* floor of required * (1 + self.inventory_buffer) as Python computes it.
BufferedFloor(required) ==
    (required * (100 + inventory_buffer)) \div 100
        - (IF BufferedIsBelow(required) THEN 1 ELSE 0)

\* Whether that float has a fractional part.
BufferedHasFraction(required) ==
    \/ (required * (100 + inventory_buffer)) % 100 # 0
    \/ BufferedIsBelow(required)

\* shortage = max(0, int(required * (1 + buffer) - current)); int() truncates
\* towards zero.
Shortage(required, current) ==
    LET d == BufferedFloor(required) - current
    IN  Max(0, IF d < 0 /\ BufferedHasFraction(required) THEN d + 1 ELSE d)

\* procurement_plan.sort(key=priority, reverse=True): stable, descending.
RECURSIVE InsertDesc(_, _)
InsertDesc(item, sorted) ==
    IF sorted = <<>> THEN <<item>>
    ELSE IF FracLess(Head(sorted).priority, item.priority)
         THEN <<item>> \o sorted
         ELSE <<Head(sorted)>> \o InsertDesc(item, Tail(sorted))

RECURSIVE SortDesc(_)
SortDesc(plan) ==
    IF plan = <<>> THEN <<>>
    ELSE LET n == Len(plan)
         IN  InsertDesc(plan[n], SortDesc(SubSeq(plan, 1, n - 1)))

\* PlanItem with the delivery test made inclusive.
PlanItem_inclusive(supply_type, required, current, days_until_surge) ==
    LET priority == calculate_resource_priority(supply_type, current, required,
                                                days_until_surge)
        lead_time == lead_times[supply_type]
        delivery_possible == days_until_surge >= lead_time
    IN  [ supply            |-> supply_type,
          required          |-> required,
          current_stock     |-> current,
          to_order          |-> Shortage(required, current),
          priority          |-> priority,
          lead_time_days    |-> lead_time,
          order_immediately |-> (FracLess(Frac(80, 1), priority)
                                    \/ ~delivery_possible),
          delivery_possible |-> delivery_possible ]

\* The dict appended for one supply (its lead time is configured).
PlanItem(supply_type, required, current, days_until_surge) ==
    LET priority == calculate_resource_priority(supply_type, current, required,
                                                days_until_surge)
        lead_time == lead_times[supply_type]
        delivery_possible == days_until_surge > lead_time
    IN  [ supply            |-> supply_type,
          required          |-> required,
          current_stock     |-> current,
          to_order          |-> Shortage(required, current),
          priority          |-> priority,
          lead_time_days    |-> lead_time,
          order_immediately |-> (FracLess(Frac(80, 1), priority)
                                    \/ ~delivery_possible),
          delivery_possible |-> delivery_possible ]

\* required_supplies is an ordered mapping: a sequence of <<name, required>>
\* with distinct names.  The loop appends an item for every supply with a
\* shortage; self.lead_times[supply_type] raises KeyError for a supply
\* without a configured lead time, which ends the call.
RECURSIVE PlanLoop(_, _, _)
PlanLoop(required_supplies, current_inventory, days_until_surge) ==
    IF required_supplies = <<>> THEN [ raised |-> FALSE, plan |-> <<>> ]
    ELSE LET n == Len(required_supplies)
             before == PlanLoop(SubSeq(required_supplies, 1, n - 1),
                                current_inventory, days_until_surge)
             supply_type == required_supplies[n][1]
             required == required_supplies[n][2]
             current == Get(current_inventory, supply_type, 0)
         IN  IF before.raised THEN before
             ELSE IF Shortage(required, current) = 0 THEN before
             ELSE IF supply_type \notin DOMAIN lead_times
                  THEN [ raised |-> TRUE, plan |-> <<>> ]
             ELSE [ raised |-> FALSE,
                    plan |-> Append(before.plan,
                                PlanItem(supply_type, required, current,
                                         days_until_surge)) ]

\* calculate_supply_needs returning the plan in the order it was appended.
calculate_supply_needs_unsorted(required_supplies, current_inventory, days_until_surge) ==
    PlanLoop(required_supplies, current_inventory, days_until_surge)

calculate_supply_needs(required_supplies, current_inventory, days_until_surge) ==
    LET looped == PlanLoop(required_supplies, current_inventory,
                           days_until_surge)
    IN  IF looped.raised THEN looped
        ELSE [ raised |-> FALSE, plan |-> SortDesc(looped.plan) ]

\* Most entries in required_supplies.
MaxSupplies == 2

\* Latest surge day passed as days_until_surge.
MaxDays == 4

SupplyNames == {"oxygen_liters", "ppe_kits", "iv_fluids_ml", "medications_units",
                "syringes"}

RequiredValues == {0, 7, 20, 100}

StockValues == {0, 8, 114}

ResourceTypes == DOMAIN clinical_criticality \cup {"syringes"}

\* Sequences of <<name, required>> with distinct names.
RequiredSupplies ==
    { rs \in UNION { [1..n -> SupplyNames \X RequiredValues] : n \in 0..MaxSupplies } :
        \A i, j \in 1..Len(rs) : i # j => rs[i][1] # rs[j][1] }

SuppliesOf(rs) == { rs[i][1] : i \in 1..Len(rs) }

\* Inventories: stock for some of the supplies asked about.
Inventories(rs) == UNION { [K -> StockValues] : K \in SUBSET SuppliesOf(rs) }

NoPriority == [ num |-> 0, den |-> 1 ]

NoPlan == [ raised |-> FALSE, plan |-> <<>> ]

PriorityInit ==
    /\ pr_call \in [ resource_type : ResourceTypes,
                     current_stock : StockValues \cup RequiredValues,
                     required : RequiredValues,
                     days_until_surge : -1..(MaxDays + 7) ]
    /\ pr_pc = "called"
    /\ pr_result = NoPriority

Priority ==
    /\ pr_pc = "called"
    /\ pr_pc' = "returned"
    /\ pr_result' = calculate_resource_priority(pr_call.resource_type,
                        pr_call.current_stock, pr_call.required,
                        pr_call.days_until_surge)
    /\ UNCHANGED <<surgeVars, bdVars, pr_call, agVars, svVars, poolVars, daVars, psgVars, lpVars, clVars, cpVars, monVars>>

AgentInit ==
    /\ \E rs \in RequiredSupplies : \E inv \in Inventories(rs) :
         \E days \in 0..MaxDays :
            ag_call = [ required_supplies |-> rs, current_inventory |-> inv,
                        days_until_surge |-> days ]
    /\ ag_pc = "called"
    /\ ag_result = NoPlan

SupplyNeeds ==
    /\ ag_pc = "called"
    /\ ag_pc' = "returned"
    /\ ag_result' = calculate_supply_needs(ag_call.required_supplies,
                        ag_call.current_inventory, ag_call.days_until_surge)
    /\ UNCHANGED <<surgeVars, bdVars, prVars, ag_call, svVars, poolVars, daVars, psgVars, lpVars, clVars, cpVars, monVars>>

--------------------------------------------------------------------------
(* ResourceService: per-facility supply status                             *)

HOSPITAL_NAME_MAPPING ==
    [ KEM_H1 |-> "King Edward Memorial Hospital",
      LOK_H2 |-> "Lokmanya Tilak Hospital",
      NAI_H3 |-> "BYL Nair Hospital",
      JJ_H4 |-> "JJ Hospital",
      HIN_H5 |-> "Hinduja Hospital",
      LIL_H6 |-> "Lilavati Hospital",
      NAN_H7 |-> "NANAVATI Hospital",
      BOM_H8 |-> "Bombay Hospital",
      JAS_H9 |-> "Jaslok Hospital",
      BRE_H10 |-> "Breach Candy Hospital",
      SAI_H11 |-> "Saifee Hospital",
      JUP_H13 |-> "Jupiter Hospital",
      COO_H14 |-> "Dr. R N Cooper Hospital",
      HBT_H15 |-> "HBT Trauma Care" ]

HOSPITAL_TYPES ==
    [ KEM_H1 |-> "Municipal", LOK_H2 |-> "Municipal", NAI_H3 |-> "Municipal",
      JJ_H4 |-> "Municipal", HIN_H5 |-> "Private", LIL_H6 |-> "Private",
      NAN_H7 |-> "Private", BOM_H8 |-> "Private", JAS_H9 |-> "Private",
      BRE_H10 |-> "Private", SAI_H11 |-> "Private", JUP_H13 |-> "Private",
      COO_H14 |-> "Municipal", HBT_H15 |-> "Municipal" ]

\* The admission categories, in the order calculate_supply_needs sums them.
Categories == <<"respiratory", "waterborne", "heat_related", "trauma", "other">>

\* SUPPLY_REQUIREMENTS, in hundredths of a unit per patient, in declaration
\* order.
SupplyItems ==
    << "Oxygen Cylinders", "Ventilators", "Oxygen Masks", "Humidifiers",
       "Trauma Stretchers", "IV Stand Kits", "Defibrillators", "Gloves/PPE",
       "Cooling Pads", "Thermometers" >>

Rates(r, w, h, t, o) ==
    [ respiratory |-> r, waterborne |-> w, heat_related |-> h, trauma |-> t,
      other |-> o ]

SUPPLY_REQUIREMENTS ==
    << Rates(30, 5, 20, 30, 25),
       Rates(10, 2, 5, 15, 8),
       Rates(200, 50, 150, 200, 150),
       Rates(30, 5, 10, 20, 15),
       Rates(10, 5, 20, 100, 15),
       Rates(60, 80, 90, 95, 70),
       Rates(2, 1, 5, 8, 15),
       Rates(2500, 2000, 1200, 3000, 1500),
       Rates(200, 100, 1500, 300, 200),
       Rates(50, 30, 60, 40, 40) >>

\* SAFETY_BUFFERS, in percent.
SAFETY_BUFFERS == [ Municipal |-> 30, Private |-> 20 ]

\* The keys of a record of the inventory file, per supply item.
FileFields ==
    << "Oxygen_cylinders", "Ventilators", "Oxygen_masks", "Humidifiers",
       "Trauma_stretchers", "IV_stand_kits", "Defibrillators",
       "Gloves_aprons_PPE", "Cooling_pads_ice_packs", "Thermometers" >>

\* _load_inventory: the file is a list of records; entries without a
\* hospital_id are skipped, a later entry replaces an earlier one.
RECURSIVE load_inventory(_)
load_inventory(inventory_array) ==
    IF inventory_array = <<>> THEN <<>>
    ELSE LET n == Len(inventory_array)
             hospital == inventory_array[n]
             before == load_inventory(SubSeq(inventory_array, 1, n - 1))
             hospital_id == Get(hospital, "hospital_id", "")
             entry == [ name |-> Get(HOSPITAL_NAME_MAPPING, hospital_id,
                                     hospital_id),
                        type |-> Get(HOSPITAL_TYPES, hospital_id, "Unknown"),
                        inventory |->
                            [ item \in { SupplyItems[i] : i \in 1..Len(SupplyItems) } |->
                                LET i == CHOOSE i \in 1..Len(SupplyItems) :
                                            SupplyItems[i] = item
                                IN  Get(hospital, FileFields[i], 0) ] ]
         IN  IF hospital_id = "" THEN before
             ELSE [ h \in DOMAIN before \cup {hospital_id} |->
                      IF h = hospital_id THEN entry ELSE before[h] ]

\* base_need, in hundredths: the sum over the categories of
\* admissions.get(category, 0) * requirements.get(category, 0).
RECURSIVE BaseNeed(_, _, _)
BaseNeed(admissions, requirements, k) ==
    IF k = 0 THEN 0
    ELSE BaseNeed(admissions, requirements, k - 1)
         + Get(admissions, Categories[k], 0) * Get(requirements, Categories[k], 0)

\* Whether base_need is computed without rounding: every rate that counts is
\* a multiple of 0.25, which binary64 holds exactly.
BaseIsExact(admissions, requirements) ==
    \A k \in 1..Len(Categories) :
        \/ Get(admissions, Categories[k], 0) = 0
        \/ Get(requirements, Categories[k], 0) % 25 = 0

\* The values int(base_need * safety_buffer) can take.  With the exact
\* product base100 * buffer / 10000 not a whole number, it is its floor.  With
\* the exact product a whole number q, a base_need that was summed without
\* rounding gives q (1.3 is held just above its decimal value, and the
\* shortfall of 1.2 is under half the float spacing); a base_need that was
\* rounded on the way may land on either side of q, so int() gives q or q - 1.
ProjectedNeeds(admissions, requirements, buffer) ==
    LET exact == BaseNeed(admissions, requirements, Len(Categories))
                    * (100 + buffer)
        q == exact \div 10000
    IN  IF exact % 10000 = 0 /\ q > 0 /\ ~BaseIsExact(admissions, requirements)
        THEN {q - 1, q}
        ELSE {q}

\* round(stock_percentage, 1), in tenths of a percent.  A value halfway
\* between two tenths goes either way, depending on the float that
\* current_stock / projected_need * 100 produced.
RoundedPercentages(current_stock, projected_need) ==
    IF projected_need > 0
    THEN LET x == current_stock * 2000
             lo == x \div (2 * projected_need)
         IN  IF x % (2 * projected_need) = projected_need THEN {lo, lo + 1}
             ELSE IF x % (2 * projected_need) > projected_need THEN {lo + 1}
             ELSE {lo}
    ELSE {1000}

\* Status and action from stock_percentage = current_stock / projected_need
\* * 100 (100 when projected_need is 0).
\* StockStatus with the LOW tier reaching up to full coverage.
StockStatus_full(current_stock, projected_need) ==
    IF projected_need > 0 /\ current_stock * 100 < 50 * projected_need
    THEN [ status |-> "CRITICAL", action |-> "ORDER_IMMEDIATELY" ]
    ELSE IF projected_need > 0 /\ current_stock * 100 <= 100 * projected_need
    THEN [ status |-> "LOW", action |-> "ORDER_IMMEDIATELY" ]
    ELSE [ status |-> "OK", action |-> "None" ]

StockStatus(current_stock, projected_need) ==
    IF projected_need > 0 /\ current_stock * 100 < 50 * projected_need
    THEN [ status |-> "CRITICAL", action |-> "ORDER_IMMEDIATELY" ]
    ELSE IF projected_need > 0 /\ current_stock * 100 < 80 * projected_need
    THEN [ status |-> "LOW", action |-> "ORDER_IMMEDIATELY" ]
    ELSE [ status |-> "OK", action |-> "None" ]

\* The entries the loop body can append for supply item i.
ItemStatuses(i, admissions, buffer, current_inventory) ==
    LET current_stock == Get(current_inventory, SupplyItems[i], 0)
        Entry(projected_need, pct) ==
            [ item_name         |-> SupplyItems[i],
              current_stock     |-> current_stock,
              projected_need    |-> projected_need,
              stock_percentage  |-> pct,
              status            |-> StockStatus(current_stock, projected_need).status,
              action_required   |-> StockStatus(current_stock, projected_need).action,
              quantity_to_order |-> Max(0, projected_need - current_stock) ]
    IN  UNION { { Entry(projected_need, pct) :
                    pct \in RoundedPercentages(current_stock, projected_need) } :
                projected_need \in ProjectedNeeds(admissions,
                                      SUPPLY_REQUIREMENTS[i], buffer) }

\* The loop over SUPPLY_REQUIREMENTS: the lists it can build from the first
\* k items.
RECURSIVE SuppliesStatuses(_, _, _, _)
SuppliesStatuses(k, admissions, buffer, current_inventory) ==
    IF k = 0 THEN { <<>> }
    ELSE { Append(before, entry) :
             before \in SuppliesStatuses(k - 1, admissions, buffer,
                                         current_inventory),
             entry \in ItemStatuses(k, admissions, buffer, current_inventory) }

\* safety_buffer with the agent's generic 15% as the fallback.
safety_buffer_generic(self_inventory_data, hospital_id) ==
    LET hospital_info == Get(self_inventory_data, hospital_id, <<>>)
        hospital_type == Get(hospital_info, "type", "Private")
    IN  Get(SAFETY_BUFFERS, hospital_type, 15)

\* safety_buffer - 1, in percent: SAFETY_BUFFERS.get(hospital_type, 0.2) with
\* hospital_type 'Private' for a facility that is not in the inventory.
safety_buffer(self_inventory_data, hospital_id) ==
    LET hospital_info == Get(self_inventory_data, hospital_id, <<>>)
        hospital_type == Get(hospital_info, "type", "Private")
    IN  Get(SAFETY_BUFFERS, hospital_type, 20)

\* ResourceService.calculate_supply_needs: the lists it can return.
ResourceService_calculate_supply_needs(self_inventory_data, hospital_id, admissions) ==
    LET hospital_info == Get(self_inventory_data, hospital_id, <<>>)
        buffer == safety_buffer(self_inventory_data, hospital_id)
        current_inventory == Get(hospital_info, "inventory", <<>>)
    IN  SuppliesStatuses(Len(SupplyItems), admissions, buffer,
                         current_inventory)

\* Inventory files: three facilities stocked alike (bulk consumables at one
\* level, equipment at another) and one entry without a hospital_id.
BulkItems == {"Oxygen_masks", "Gloves_aprons_PPE", "Cooling_pads_ice_packs"}

BulkStocks == {0, 400, 650, 1040, 1300}

EquipmentStocks == {0, 5}

FileRecord(hospital_id, bulk, equipment) ==
    [ f \in {"hospital_id"} \cup { FileFields[i] : i \in 1..Len(FileFields) } |->
        IF f = "hospital_id" THEN hospital_id
        ELSE IF f \in BulkItems THEN bulk ELSE equipment ]

InventoryFiles ==
    { << FileRecord("KEM_H1", b, e), FileRecord("HIN_H5", b, e),
         [ Ventilators |-> e ], FileRecord("NEW_H99", b, e) >> :
        b \in BulkStocks, e \in EquipmentStocks }

\* Facilities asked about: LIL_H6 is not in the inventory file.
ServiceHospitals == {"KEM_H1", "HIN_H5", "NEW_H99", "LIL_H6"}

ServiceAdmissionValues == {0, 2, 6, 40}

ServiceAdmissions ==
    [ { Categories[k] : k \in 1..Len(Categories) } -> ServiceAdmissionValues ]

\* ResourceService.__init__ and a call.
ServiceInit ==
    /\ \E file \in InventoryFiles : inventory_data = load_inventory(file)
    /\ sv_call \in [ hospital_id : ServiceHospitals, admissions : ServiceAdmissions ]
    /\ sv_pc = "called"
    /\ sv_result = <<>>

ServiceSupplyNeeds ==
    /\ sv_pc = "called"
    /\ sv_pc' = "returned"
    /\ sv_result' \in ResourceService_calculate_supply_needs(inventory_data,
                          sv_call.hospital_id, sv_call.admissions)
    /\ UNCHANGED <<surgeVars, bdVars, prVars, agVars, inventory_data, sv_call,
                   poolVars, daVars, psgVars, lpVars, clVars, cpVars, monVars>>

--------------------------------------------------------------------------
(* ResourceRecommendationAgent: pooling across facilities                  *)
(*                                                                         *)
(* A dict is a function from its keys.  hospitals_data lists facilities    *)
(* with pairwise distinct hospital_id, so the keys of the per-facility     *)
(* dicts were inserted in list order.                                      *)
--------------------------------------------------------------------------

\* Most facilities in hospitals_data.
MaxHospitals == 2

PoolResourceTypes == {"ppe_kits", "oxygen_liters"}

RequiredQuantities == {0, 500}

\* A facility without stock of a type leaves it out of available_resources.
AvailableQuantities == {800}

\* Dicts giving a quantity for some of the resource types.
Mappings(quantities) ==
    UNION { [K -> quantities] : K \in SUBSET PoolResourceTypes }

\* hospitals_data: facility i has hospital_id i.
HospitalsData(required, available) ==
    [ i \in DOMAIN required |->
        [ hospital_id         |-> i,
          required_resources  |-> required[i],
          available_resources |-> available[i] ] ]

\* The state of the first loop before any facility.
NoTotals ==
    [ total_requirements      |-> <<>>,
      total_available         |-> <<>>,
      hospitals_with_surplus  |-> <<>>,
      hospitals_with_shortage |-> <<>> ]

\* d[key] = value
Put(d, key, value) ==
    [ k \in DOMAIN d \cup {key} |-> IF k = key THEN value ELSE d[k] ]

\* d[key][k] = entries[k] for every k of entries, d[key] created when absent;
\* d is left alone when there is no entry.
PutAll(d, key, entries) ==
    IF DOMAIN entries = {} THEN d
    ELSE LET old == Get(d, key, <<>>)
         IN  Put(d, key, [ k \in DOMAIN old \cup DOMAIN entries |->
                             IF k \in DOMAIN entries THEN entries[k]
                             ELSE old[k] ])

\* One pass of "for hospital in hospitals_data": the inner loop visits the
\* keys of required_resources only, and each key touches its own entries.
AnalyzeHospital(acc, hospital) ==
    LET h_id == hospital.hospital_id
        required == hospital.required_resources
        available == hospital.available_resources
        types == DOMAIN required
        avail(t) == Get(available, t, 0)
        surplus == [ t \in { u \in types : avail(u) > required[u] } |->
                       avail(t) - required[t] ]
        shortage == [ t \in { u \in types : required[u] > avail(u) } |->
                        required[t] - avail(t) ]
    IN  [ total_requirements |->
              [ t \in DOMAIN acc.total_requirements \cup types |->
                  Get(acc.total_requirements, t, 0)
                      + (IF t \in types THEN required[t] ELSE 0) ],
          total_available |->
              [ t \in DOMAIN acc.total_available \cup types |->
                  Get(acc.total_available, t, 0)
                      + (IF t \in types THEN avail(t) ELSE 0) ],
          hospitals_with_surplus |->
              PutAll(acc.hospitals_with_surplus, h_id, surplus),
          hospitals_with_shortage |->
              PutAll(acc.hospitals_with_shortage, h_id, shortage) ]

\* The first loop over the first k facilities.
RECURSIVE AnalyzeHospitals(_, _)
AnalyzeHospitals(hospitals_data, k) ==
    IF k = 0 THEN NoTotals
    ELSE AnalyzeHospital(AnalyzeHospitals(hospitals_data, k - 1),
                         hospitals_data[k])

\* [(h_id, d.get(t, 0)) for h_id, d in by_hospital.items() if t in d], the
\* items taken in the order of the first k facilities.
RECURSIVE HospitalsHaving(_, _, _, _)
HospitalsHaving(hospitals_data, k, by_hospital, t) ==
    IF k = 0 THEN <<>>
    ELSE LET before == HospitalsHaving(hospitals_data, k - 1, by_hospital, t)
             h_id == hospitals_data[k].hospital_id
         IN  IF /\ h_id \in DOMAIN by_hospital
                /\ t \in DOMAIN by_hospital[h_id]
                /\ \A j \in 1..(k - 1) : hospitals_data[j].hospital_id # h_id
             THEN Append(before, <<h_id, by_hospital[h_id][t]>>)
             ELSE before

\* sum(s for _, s in pairs)
RECURSIVE SumOfAmounts(_)
SumOfAmounts(pairs) ==
    IF pairs = <<>> THEN 0 ELSE Head(pairs)[2] + SumOfAmounts(Tail(pairs))

\* The pooling recommendation appended for resource_type, if any.
PoolingRecommendations(hospitals_data, totals, resource_type) ==
    LET n == Len(hospitals_data)
        surplus_hospitals ==
            HospitalsHaving(hospitals_data, n, totals.hospitals_with_surplus,
                            resource_type)
        shortage_hospitals ==
            HospitalsHaving(hospitals_data, n, totals.hospitals_with_shortage,
                            resource_type)
        transferable == Min(SumOfAmounts(surplus_hospitals),
                            SumOfAmounts(shortage_hospitals))
    IN  IF surplus_hospitals # <<>> /\ shortage_hospitals # <<>>
        THEN { [ resource           |-> resource_type,
                 total_surplus      |-> SumOfAmounts(surplus_hospitals),
                 total_shortage     |-> SumOfAmounts(shortage_hospitals),
                 can_transfer       |-> transferable,
                 surplus_hospitals  |-> surplus_hospitals,
                 shortage_hospitals |-> shortage_hospitals,
                 recommendation     |->
                     <<"Transfer ", ToString(transferable),
                       " units from surplus to shortage hospitals">> ] }
        ELSE {}

\* NetworkShortage ignoring what the network holds.
NetworkShortage_gross(totals, resource_type) ==
    Max(0, totals.total_requirements[resource_type])

NetworkShortage(totals, resource_type) ==
    Max(0, totals.total_requirements[resource_type]
               - totals.total_available[resource_type])

\* generate_multi_hospital_recommendations.  pooling_opportunities is held as
\* the set of the dicts in the list (one per resource type at most).
generate_multi_hospital_recommendations(hospitals_data) ==
    LET totals == AnalyzeHospitals(hospitals_data, Len(hospitals_data))
        types == DOMAIN totals.total_requirements
    IN  [ total_requirements |-> totals.total_requirements,
          total_available |-> totals.total_available,
          network_procurement_needed |->
              [ t \in { u \in types : NetworkShortage(totals, u) > 0 } |->
                  NetworkShortage(totals, t) ],
          pooling_opportunities |->
              UNION { PoolingRecommendations(hospitals_data, totals, t) :
                      t \in types },
          hospitals_with_surplus |-> totals.hospitals_with_surplus,
          hospitals_with_shortage |-> totals.hospitals_with_shortage ]

NoRecommendations ==
    [ total_requirements         |-> <<>>,
      total_available            |-> <<>>,
      network_procurement_needed |-> <<>>,
      pooling_opportunities      |-> {},
      hospitals_with_surplus     |-> <<>>,
      hospitals_with_shortage    |-> <<>> ]

PoolInit ==
    /\ \E n \in 0..MaxHospitals :
         \E required \in [1..n -> Mappings(RequiredQuantities)] :
            \E available \in [1..n -> Mappings(AvailableQuantities)] :
                pool_call = HospitalsData(required, available)
    /\ pool_pc = "called"
    /\ pool_result = NoRecommendations

\* MultiHospitalRecommendations carrying out the transfers it recommends:
\* every facility is left holding what it requires.
MultiHospitalRecommendations_transfers ==
    /\ pool_pc = "called"
    /\ pool_pc' = "returned"
    /\ pool_result' = generate_multi_hospital_recommendations(pool_call)
    /\ pool_call' = [ i \in DOMAIN pool_call |->
                        [ pool_call[i] EXCEPT !.available_resources =
                              pool_call[i].required_resources ] ]
    /\ UNCHANGED <<surgeVars, bdVars, prVars, agVars, svVars, daVars, psgVars,
                   lpVars, clVars, cpVars, monVars>>

MultiHospitalRecommendations ==
    /\ pool_pc = "called"
    /\ pool_pc' = "returned"
    /\ pool_result' = generate_multi_hospital_recommendations(pool_call)
    /\ UNCHANGED <<surgeVars, bdVars, prVars, agVars, svVars, pool_call,
                   daVars, psgVars, lpVars, clVars, cpVars, monVars>>

--------------------------------------------------------------------------
(* DataAccumulatorAgent.generate_daily_data: the record of one day         *)
(*                                                                         *)
(* The multiplier is held in hundredths, the category weights in           *)
(* hundredths before they are divided by their sum.                        *)

\* Largest base_admissions of a day.
MaxBase == 40

DailyAqiValues == {100, 200, 201, 300, 301}

DailyRainValues == {0, 20, 21, 50, 51}

DailyTempValues == {30, 35, 36, 37}

\* event_map.get(current_date, {}): no entry, or an entry of the calendar.
DailyEvents == { <<>>,
                 [ has_event |-> TRUE, active_events |-> "Ganesh Chaturthi" ],
                 [ has_event |-> FALSE, active_events |-> "None" ] }

\* DailySurgeMult with the AQI comparisons made inclusive.
DailySurgeMult_inclusive(aqi, rain, temp, has_event) ==
    100 + (IF aqi >= 200 THEN 20 ELSE 0)
        + (IF aqi >= 300 THEN 30 ELSE 0)
        + (IF rain > 50 THEN 30 ELSE 0)
        + (IF temp > 36 THEN 20 ELSE 0)
        + (IF has_event THEN 20 ELSE 0)

\* surge_mult after the five tests, in hundredths.
DailySurgeMult(aqi, rain, temp, has_event) ==
    100 + (IF aqi > 200 THEN 20 ELSE 0)
        + (IF aqi > 300 THEN 30 ELSE 0)
        + (IF rain > 50 THEN 30 ELSE 0)
        + (IF temp > 36 THEN 20 ELSE 0)
        + (IF has_event THEN 20 ELSE 0)

\* reasons, in the order the tests append them.
DailyReasons(aqi, rain, temp, has_event, event_name) ==
    (IF aqi > 200 THEN << <<"Poor AQI">> >> ELSE <<>>)
    \o (IF aqi > 300 THEN << <<"Very Poor AQI">> >> ELSE <<>>)
    \o (IF rain > 50 THEN << <<"Heavy Rainfall">> >> ELSE <<>>)
    \o (IF temp > 36 THEN << <<"Heatwave">> >> ELSE <<>>)
    \o (IF has_event THEN << <<"Event: ", event_name>> >> ELSE <<>>)

\* int(base_admissions * surge_mult).  The doubles 1.4 and 1.6 that the
\* additions produce lie below 1.4 and 1.6, so a product that is a whole
\* number can come out one short; every other multiplier truncates exactly.
TotalAdmissions(base_admissions, surge_mult) ==
    LET q == (base_admissions * surge_mult) \div 100
    IN  IF /\ surge_mult \in {140, 160}
           /\ q > 0
           /\ (base_admissions * surge_mult) % 100 = 0
        THEN {q - 1, q}
        ELSE {q}

\* weights after the four boosts, before normalisation (hundredths).
Weights(aqi, rain, temp, has_event) ==
    [ respiratory |-> 15 + (IF aqi > 200 THEN 20 ELSE 0),
      waterborne  |-> 10 + (IF rain > 20 THEN 20 ELSE 0),
      heat        |-> 5  + (IF temp > 35 THEN 15 ELSE 0),
      trauma      |-> 20 + (IF has_event THEN 15 ELSE 0),
      other       |-> 50 ]

\* total_weight = sum(weights.values())
TotalWeight(w) ==
    w.respiratory + w.waterborne + w.heat + w.trauma + w.other

BoostedCategories == {"respiratory", "waterborne", "heat", "trauma"}

\* The normalised weights v / total_weight whose double lies below the exact
\* quotient by enough to make a whole product truncate one short, as
\* <<total_weight, boosted categories, category>>.
ShortWeights ==
    { <<130, {"heat", "trauma"}, "respiratory">>,
      <<120, {"waterborne"}, "respiratory">>,
      <<150, {"waterborne", "heat", "trauma"}, "respiratory">>,
      <<150, {"waterborne", "heat", "trauma"}, "trauma">>,
      <<150, {"respiratory", "heat", "trauma"}, "respiratory">>,
      <<150, {"respiratory", "heat", "trauma"}, "trauma">>,
      <<140, {"respiratory", "waterborne"}, "respiratory">>,
      <<155, {"respiratory", "waterborne", "trauma"}, "respiratory">>,
      <<155, {"respiratory", "waterborne", "trauma"}, "trauma">>,
      <<155, {"respiratory", "waterborne", "heat"}, "respiratory">>,
      <<170, BoostedCategories, "respiratory">>,
      <<170, BoostedCategories, "trauma">> }

Boosted(w) ==
    { k \in BoostedCategories :
        w[k] > (CASE k = "respiratory" -> 15 [] k = "waterborne" -> 10
                  [] k = "heat" -> 5 [] k = "trauma" -> 20) }

\* CategoryAdmissions rounding up instead of truncating.
CategoryAdmissions_roundup(total_admissions, w, k) ==
    {(total_admissions * w[k] + TotalWeight(w) - 1) \div TotalWeight(w)}

\* int(total_admissions * weights[k]) with weights[k] = v / total_weight.
CategoryAdmissions(total_admissions, w, k) ==
    LET W == TotalWeight(w)
        q == (total_admissions * w[k]) \div W
    IN  IF /\ <<W, Boosted(w), k>> \in ShortWeights
           /\ q > 0
           /\ (total_admissions * w[k]) % W = 0
        THEN {q - 1, q}
        ELSE {q}

\* generate_surge_narrative: the collaborator is asked only when it is
\* configured and the multiplier is at least 1.3.
AsksCollaborator(self_model, surge_mult) ==
    self_model # "None" /\ ~(surge_mult < 130)

generate_surge_narrative(self_model, date_str, surge_mult, reasons, llm) ==
    IF ~AsksCollaborator(self_model, surge_mult)
    THEN IF reasons # <<>> THEN Join(reasons) ELSE <<"None">>
    ELSE IF llm.raises THEN Join(reasons)
    ELSE llm.text

DailySeverity(surge_mult) ==
    IF surge_mult > 150 THEN "Major"
    ELSE IF surge_mult > 120 THEN "Moderate"
    ELSE IF surge_mult > 110 THEN "Minor"
    ELSE "None"

\* The record with its `other` count set.
DailyRecord(c, self_model, llm, total, resp, water, heat, trauma, other) ==
    LET has_event  == Get(c.event_data, "has_event", FALSE)
        event_name == Get(c.event_data, "active_events", "None")
        surge_mult == DailySurgeMult(c.aqi, c.rain, c.temp, has_event)
        reasons    == DailyReasons(c.aqi, c.rain, c.temp, has_event, event_name)
    IN  [ total_admissions       |-> total,
          baseline_admissions    |-> c.base_admissions,
          surge_multiplier       |-> surge_mult,
          is_surge               |-> surge_mult > 110,
          surge_severity         |-> DailySeverity(surge_mult),
          surge_reasons          |-> generate_surge_narrative(self_model,
                                         c.date, surge_mult, reasons, llm),
          respiratory_admissions |-> resp,
          waterborne_admissions  |-> water,
          heat_admissions        |-> heat,
          trauma_admissions      |-> trauma,
          other_admissions       |-> other,
          avg_aqi                |-> c.aqi,
          temperature_c          |-> c.temp,
          rainfall_mm            |-> c.rain,
          active_events          |-> IF has_event THEN event_name ELSE "None" ]

\* generate_daily_data with `other` truncated from its own weight.
generate_daily_data_weighted(self_model, c, llm) ==
    LET has_event == Get(c.event_data, "has_event", FALSE)
        w == Weights(c.aqi, c.rain, c.temp, has_event)
    IN  { DailyRecord(c, self_model, llm, total,
                      (total * w.respiratory) \div TotalWeight(w),
                      (total * w.waterborne) \div TotalWeight(w),
                      (total * w.heat) \div TotalWeight(w),
                      (total * w.trauma) \div TotalWeight(w),
                      (total * w.other) \div TotalWeight(w)) :
            total \in TotalAdmissions(c.base_admissions,
                          DailySurgeMult(c.aqi, c.rain, c.temp, has_event)) }

\* The body of the day loop of generate_daily_data: the records it can append
\* for one day.
generate_daily_data(self_model, c, llm) ==
    LET has_event == Get(c.event_data, "has_event", FALSE)
        w == Weights(c.aqi, c.rain, c.temp, has_event)
    IN  UNION { UNION { UNION { UNION {
          { DailyRecord(c, self_model, llm, total, resp, water, heat, trauma,
                        total - (resp + water + heat + trauma)) :
              trauma \in CategoryAdmissions(total, w, "trauma") } :
            heat \in CategoryAdmissions(total, w, "heat") } :
            water \in CategoryAdmissions(total, w, "waterborne") } :
            resp \in CategoryAdmissions(total, w, "respiratory") } :
            total \in TotalAdmissions(c.base_admissions,
                          DailySurgeMult(c.aqi, c.rain, c.temp, has_event)) }

DailyOutcomes(self_model, c) ==
    IF AsksCollaborator(self_model,
           DailySurgeMult(c.aqi, c.rain, c.temp,
                          Get(c.event_data, "has_event", FALSE)))
    THEN LlmOutcomes ELSE {NotCalled}

NoDay == [ date |-> "", base_admissions |-> 0, aqi |-> 0, rain |-> 0,
           temp |-> 0, event_data |-> <<>> ]

NoRecord == [ total_admissions |-> 0 ]

\* A day of the loop: its inputs are the histories' entries for the date and
\* the base admissions the noise produced.
AccumulatorInit ==
    /\ da_model \in {"gemini", "None"}
    /\ \E b \in 0..MaxBase, a \in DailyAqiValues, r \in DailyRainValues,
          t \in DailyTempValues, e \in DailyEvents :
         da_call = [ date |-> "2024-09-07", base_admissions |-> b, aqi |-> a,
                     rain |-> r, temp |-> t, event_data |-> e ]
    /\ da_pc = "called"
    /\ da_result = NoRecord

GenerateDailyData ==
    /\ da_pc = "called"
    /\ da_pc' = "returned"
    /\ \E llm \in DailyOutcomes(da_model, da_call) :
         da_result' \in generate_daily_data(da_model, da_call, llm)
    /\ UNCHANGED <<surgeVars, bdVars, prVars, agVars, svVars, poolVars,
                   da_model, da_call, psgVars, lpVars, clVars, cpVars, monVars>>

--------------------------------------------------------------------------
(* PatientSurgeGenerator._generate_disease_distribution                    *)

\* Largest total_admissions passed to the method.
MaxTotal == 30

\* DISEASE_PATTERNS: thresholds, surge_factor in tenths, baseline_percentage
\* in hundredths.
DISEASE_PATTERNS ==
    [ respiratory  |-> [ threshold |-> 200, surge_factor |-> 20,
                         baseline_percentage |-> 15 ],
      waterborne   |-> [ threshold |-> 30, surge_factor |-> 18,
                         baseline_percentage |-> 10 ],
      heat_related |-> [ threshold |-> 36, surge_factor |-> 15,
                         baseline_percentage |-> 5 ],
      trauma       |-> [ threshold |-> 0, surge_factor |-> 16,
                         baseline_percentage |-> 20 ] ]

\* int(baseline * surge) when the condition holds, int(baseline) otherwise,
\* with baseline = total_admissions * baseline_percentage.  The doubles give
\* the exact truncation for every total up to 5000.
DiseaseCount(total_admissions, k, surged) ==
    LET p == DISEASE_PATTERNS[k]
    IN  IF surged
        THEN (total_admissions * p.baseline_percentage * p.surge_factor) \div 1000
        ELSE (total_admissions * p.baseline_percentage) \div 100

generate_disease_distribution(row, total_admissions) ==
    LET respiratory  == DiseaseCount(total_admissions, "respiratory",
                            row.avg_aqi > DISEASE_PATTERNS.respiratory.threshold)
        waterborne   == DiseaseCount(total_admissions, "waterborne",
                            row.rainfall_mm > DISEASE_PATTERNS.waterborne.threshold)
        heat_related == DiseaseCount(total_admissions, "heat_related",
                            row.temperature_c > DISEASE_PATTERNS.heat_related.threshold)
        trauma       == DiseaseCount(total_admissions, "trauma", row.has_event)
    IN  [ respiratory  |-> respiratory,
          waterborne   |-> waterborne,
          heat_related |-> heat_related,
          trauma       |-> trauma,
          other        |-> Max(0, total_admissions
                             - (respiratory + waterborne + heat_related + trauma)) ]

Rows == [ avg_aqi : {200, 201}, rainfall_mm : {30, 31},
          temperature_c : {36, 37}, has_event : BOOLEAN ]

NoRow == [ avg_aqi |-> 0, rainfall_mm |-> 0, temperature_c |-> 0,
           has_event |-> FALSE ]

NoDistribution == [ respiratory |-> 0, waterborne |-> 0, heat_related |-> 0,
                    trauma |-> 0, other |-> 0 ]

GeneratorInit ==
    /\ psg_call \in [ row : Rows, total_admissions : 0..MaxTotal ]
    /\ psg_pc = "called"
    /\ psg_result = NoDistribution

GenerateDiseaseDistribution ==
    /\ psg_pc = "called"
    /\ psg_pc' = "returned"
    /\ psg_result' = generate_disease_distribution(psg_call.row,
                                                   psg_call.total_admissions)
    /\ UNCHANGED <<surgeVars, bdVars, prVars, agVars, svVars, poolVars,
                   daVars, psg_call, lpVars, clVars, cpVars, monVars>>

--------------------------------------------------------------------------
(* SurgePredictor.predict followed through its collaborator call           *)
(*                                                                         *)
(* predict computes the numbers, then calls model.generate_content(prompt) *)
(* with no timeout argument and waits for it to return or raise.  The      *)
(* collaborator is a remote service: whether and when it answers is not    *)
(* the program's doing.                                                    *)

PredictCallInit ==
    /\ lp_model \in {"gemini", "None"}
    /\ lp_call \in Calls
    /\ lp_pc = "called"
    /\ lp_result = NoResult

\* Steps 1 to 3 and the test that guards the collaborator call: predict either
\* enters generate_content or returns with the initial narrative.
PredictCompute ==
    /\ lp_pc = "called"
    /\ IF CallsCollaborator(lp_model,
             RawMultiplier(lp_call.aqi, lp_call.weather, lp_call.events),
             RiskFactors(lp_call.aqi, lp_call.weather, lp_call.events))
       THEN lp_pc' = "waiting" /\ UNCHANGED lp_result
       ELSE /\ lp_pc' = "returned"
            /\ lp_result' = predict(lp_model, lp_call.date, lp_call.aqi,
                                    lp_call.weather, lp_call.events, NotCalled)
    /\ UNCHANGED <<surgeVars, bdVars, prVars, agVars, svVars, poolVars, daVars,
                   psgVars, lp_model, lp_call, clVars, cpVars,
                   monVars>>

\* generate_content returns a text or raises, and predict returns.
CollaboratorResponds ==
    /\ lp_pc = "waiting"
    /\ \E llm \in LlmOutcomes :
         lp_result' = predict(lp_model, lp_call.date, lp_call.aqi,
                              lp_call.weather, lp_call.events, llm)
    /\ lp_pc' = "returned"
    /\ UNCHANGED <<surgeVars, bdVars, prVars, agVars, svVars, poolVars, daVars,
                   psgVars, lp_model, lp_call, clVars, cpVars,
                   monVars>>

--------------------------------------------------------------------------
(* The severity classifiers, applied to one multiplier                     *)
(*                                                                         *)
(* The multiplier is in hundredths.                                        *)

\* Largest multiplier classified, in hundredths.
MaxMultiplier == 250

\* RECOMMENDATION_THRESHOLDS, in hundredths.
RECOMMENDATION_THRESHOLDS ==
    [ minor_surge |-> 120, moderate_surge |-> 140, major_surge |-> 170,
      critical_surge |-> 200 ]

\* RecommendationEngine._classify_surge_level
classify_surge_level(surge_multiplier) ==
    IF surge_multiplier >= RECOMMENDATION_THRESHOLDS.critical_surge THEN "critical"
    ELSE IF surge_multiplier >= RECOMMENDATION_THRESHOLDS.major_surge THEN "major"
    ELSE IF surge_multiplier >= RECOMMENDATION_THRESHOLDS.moderate_surge
         THEN "moderate"
    ELSE IF surge_multiplier >= RECOMMENDATION_THRESHOLDS.minor_surge THEN "minor"
    ELSE "normal"

\* The surge_severity that PatientSurgeGenerator.generate records.
surge_severity(surge_mult) ==
    IF surge_mult > 200 THEN "critical"
    ELSE IF surge_mult > 170 THEN "major"
    ELSE IF surge_mult > 140 THEN "moderate"
    ELSE IF surge_mult > 120 THEN "minor"
    ELSE "none"

Classifiers == {"predict", "engine", "generator"}

ClassifierInit ==
    /\ cl_call \in 100..MaxMultiplier
    /\ cl_result = [ c \in Classifiers |-> "" ]

ClassifyPredict ==
    /\ cl_call # 0 /\ cl_result["predict"] = ""
    /\ cl_result' = [cl_result EXCEPT !["predict"] = Severity(cl_call * 10)]
    /\ UNCHANGED <<surgeVars, bdVars, prVars, agVars, svVars, poolVars, daVars,
                   psgVars, lpVars, cl_call, cpVars, monVars>>

ClassifyEngine ==
    /\ cl_call # 0 /\ cl_result["engine"] = ""
    /\ cl_result' = [cl_result EXCEPT !["engine"] = classify_surge_level(cl_call)]
    /\ UNCHANGED <<surgeVars, bdVars, prVars, agVars, svVars, poolVars, daVars,
                   psgVars, lpVars, cl_call, cpVars, monVars>>

ClassifyGenerator ==
    /\ cl_call # 0 /\ cl_result["generator"] = ""
    /\ cl_result' = [cl_result EXCEPT !["generator"] = surge_severity(cl_call)]
    /\ UNCHANGED <<surgeVars, bdVars, prVars, agVars, svVars, poolVars, daVars,
                   psgVars, lpVars, cl_call, cpVars, monVars>>

--------------------------------------------------------------------------
(* ResourceRecommendationAgent.generate_comprehensive_resource_plan        *)

StaffTypes == <<"doctors", "nurses", "support_staff">>

\* The keys of the forecast for the three roles.
StaffNeeded == <<"doctors_needed", "nurses_needed", "support_staff_needed">>

PlanSupplies ==
    <<"ppe_kits", "oxygen_liters", "iv_fluids_ml", "medications_units",
      "bed_linens">>

FracAdd(x, y) == Frac(x.num * y.den + y.num * x.den, x.den * y.den)

\* calculate_staff_needs with the coverage of the staff held alone.
calculate_staff_needs_held(required_staff, available_staff) ==
    [ i \in 1..Len(StaffTypes) |->
        LET required == required_staff[i]
            available == available_staff[i]
            shortage == Max(0, required - available)
        IN  [ staff_type |-> StaffTypes[i],
              required   |-> required,
              available  |-> available,
              to_deploy  |-> shortage,
              coverage   |-> IF required > 0
                             THEN Frac(available * 100, required)
                             ELSE Frac(100, 1) ] ]

\* calculate_staff_needs: the allocation, in the order of its keys.
calculate_staff_needs(required_staff, available_staff) ==
    [ i \in 1..Len(StaffTypes) |->
        LET required == required_staff[i]
            available == available_staff[i]
            shortage == Max(0, required - available)
        IN  [ staff_type |-> StaffTypes[i],
              required   |-> required,
              available  |-> available,
              to_deploy  |-> shortage,
              coverage   |-> IF required > 0
                             THEN Frac((available + shortage) * 100, required)
                             ELSE Frac(100, 1) ] ]

\* SupplyAction without the day of margin before the lead time.
SupplyAction_nomargin(item, days_until_surge) ==
    LET days == Max(0, days_until_surge - item.lead_time_days)
    IN  [ date          |-> days,
          days_from_now |-> days,
          action        |-> <<"Order ", item.supply>>,
          quantity      |-> item.to_order,
          priority      |-> IF FracLess(Frac(80, 1), item.priority)
                            THEN "URGENT" ELSE "NORMAL",
          category      |-> "Supply Procurement" ]

\* The timeline entry of a supply order; a date is held as its distance in
\* days from datetime.now().
SupplyAction(item, days_until_surge) ==
    LET days == Max(0, days_until_surge - item.lead_time_days - 1)
    IN  [ date          |-> days,
          days_from_now |-> days,
          action        |-> <<"Order ", item.supply>>,
          quantity      |-> item.to_order,
          priority      |-> IF FracLess(Frac(80, 1), item.priority)
                            THEN "URGENT" ELSE "NORMAL",
          category      |-> "Supply Procurement" ]

StaffAction(details, days_until_surge) ==
    LET days == Max(0, days_until_surge - 2)
    IN  [ date          |-> days,
          days_from_now |-> days,
          action        |-> <<"Deploy ", details.staff_type>>,
          quantity      |-> details.to_deploy,
          priority      |-> "HIGH",
          category      |-> "Staff Deployment" ]

\* timeline.sort(key=days_from_now): stable, ascending.
RECURSIVE InsertAsc(_, _)
InsertAsc(entry, sorted) ==
    IF sorted = <<>> THEN <<entry>>
    ELSE IF entry.days_from_now < Head(sorted).days_from_now
         THEN <<entry>> \o sorted
         ELSE <<Head(sorted)>> \o InsertAsc(entry, Tail(sorted))

RECURSIVE SortAsc(_)
SortAsc(timeline) ==
    IF timeline = <<>> THEN <<>>
    ELSE LET n == Len(timeline)
         IN  InsertAsc(timeline[n], SortAsc(SubSeq(timeline, 1, n - 1)))

\* The entries in the order they are appended: supply orders, then staff.
TimelineEntries(staff_plan, supply_plan, days_until_surge) ==
    [ j \in 1..Len(supply_plan) |-> SupplyAction(supply_plan[j], days_until_surge) ]
    \o SelectSeq([ i \in 1..Len(staff_plan) |->
                     StaffAction(staff_plan[i], days_until_surge) ],
                 LAMBDA e : e.quantity > 0)

\* _generate_action_timeline without the final sort.
generate_action_timeline_unsorted(staff_plan, supply_plan, days_until_surge) ==
    TimelineEntries(staff_plan, supply_plan, days_until_surge)

generate_action_timeline(staff_plan, supply_plan, days_until_surge) ==
    SortAsc(TimelineEntries(staff_plan, supply_plan, days_until_surge))

RECURSIVE FracSum(_)
FracSum(scores) ==
    IF scores = <<>> THEN Frac(0, 1)
    ELSE FracAdd(Head(scores), FracSum(Tail(scores)))

\* np.mean(scores) if scores else 100
MeanOr100(scores) ==
    IF scores = <<>> THEN Frac(100, 1)
    ELSE FracMul(FracSum(scores), Frac(1, Len(scores)))

\* round(x, 1), in tenths: the nearest tenth; at an exact half the double
\* decides, so either neighbour.
RoundTenths(x) ==
    LET n == 10 * x.num
        q == n \div x.den
        r == n % x.den
    IN  IF 2 * r < x.den THEN {q}
        ELSE IF 2 * r > x.den THEN {q + 1}
        ELSE {q, q + 1}

\* The supply coverage of one plan item, capped at 100.
SupplyScore(item) ==
    FracMin(Frac(100, 1),
            IF item.required > 0
            THEN Frac((item.current_stock + item.to_order) * 100, item.required)
            ELSE Frac(100, 1))

\* _calculate_readiness_score before the rounding.
OverallReadiness(staff_plan, supply_plan) ==
    LET avg_staff_readiness ==
            MeanOr100([ i \in 1..Len(staff_plan) |-> staff_plan[i].coverage ])
        avg_supply_readiness ==
            MeanOr100([ j \in 1..Len(supply_plan) |-> SupplyScore(supply_plan[j]) ])
    IN  FracAdd(FracMul(avg_staff_readiness, Frac(6, 10)),
                FracMul(avg_supply_readiness, Frac(4, 10)))

\* _calculate_readiness_score, in tenths.
calculate_readiness_score(staff_plan, supply_plan) ==
    RoundTenths(OverallReadiness(staff_plan, supply_plan))

\* The plans for the forecast: a missing key reads as 0, so the mappings are
\* held with every key present.
generate_comprehensive_resource_plan(resource_forecast, current_resources, days_until_surge) ==
    LET staff_plan ==
            calculate_staff_needs(
                [ i \in 1..Len(StaffTypes) |-> resource_forecast[StaffNeeded[i]] ],
                [ i \in 1..Len(StaffTypes) |-> current_resources[StaffTypes[i]] ])
        supply_plan ==
            calculate_supply_needs(
                [ j \in 1..Len(PlanSupplies) |->
                    <<PlanSupplies[j], resource_forecast[PlanSupplies[j]]>> ],
                [ s \in { PlanSupplies[j] : j \in 1..Len(PlanSupplies) } |->
                    current_resources[s] ],
                days_until_surge).plan
    IN  { [ days_until_surge   |-> days_until_surge,
            staff_allocation   |-> staff_plan,
            supply_procurement |-> supply_plan,
            action_timeline    |-> generate_action_timeline(staff_plan,
                                       supply_plan, days_until_surge),
            readiness_score    |-> readiness ] :
          readiness \in calculate_readiness_score(staff_plan, supply_plan) }

\* get_recommendations: the priority of its Staff Deployment recommendation,
\* from the readiness score in tenths.
StaffDeploymentPriority(plan) ==
    IF plan.readiness_score < 800 THEN "HIGH" ELSE "MEDIUM"

\* <<required, held>> for a staff role and for a supply.
StaffLevels == { <<0, 0>>, <<10, 0>>, <<10, 20>> }

SupplyLevels == { <<0, 0>>, <<20, 0>>, <<20, 8>> }

ForecastKeys ==
    { StaffNeeded[i] : i \in 1..Len(StaffNeeded) }
    \cup { PlanSupplies[j] : j \in 1..Len(PlanSupplies) }

ResourceKeys ==
    { StaffTypes[i] : i \in 1..Len(StaffTypes) }
    \cup { PlanSupplies[j] : j \in 1..Len(PlanSupplies) }

\* The forecast key of a resource.
NeededKey(k) ==
    IF \E i \in 1..Len(StaffTypes) : StaffTypes[i] = k
    THEN StaffNeeded[CHOOSE i \in 1..Len(StaffTypes) : StaffTypes[i] = k]
    ELSE k

NoComprehensivePlan ==
    [ days_until_surge |-> 0, staff_allocation |-> <<>>,
      supply_procurement |-> <<>>, action_timeline |-> <<>>,
      readiness_score |-> 0 ]

NoPlanCall ==
    [ resource_forecast |-> <<>>, current_resources |-> <<>>,
      days_until_surge |-> 0 ]

ComprehensiveInit ==
    /\ \E staff \in [ { StaffTypes[i] : i \in 1..Len(StaffTypes) } -> StaffLevels ] :
         \E supplies \in [ { PlanSupplies[j] : j \in 1..Len(PlanSupplies) }
                             -> SupplyLevels ] :
            \E days \in 0..MaxDays :
               LET level(k) == IF k \in DOMAIN staff THEN staff[k] ELSE supplies[k]
               IN  cp_call =
                     [ resource_forecast |->
                           [ f \in ForecastKeys |->
                               level(CHOOSE k \in ResourceKeys : NeededKey(k) = f)[1] ],
                       current_resources |->
                           [ k \in ResourceKeys |-> level(k)[2] ],
                       days_until_surge |-> days ]
    /\ cp_pc = "called"
    /\ cp_result = NoComprehensivePlan

ComprehensivePlan ==
    /\ cp_pc = "called"
    /\ cp_pc' = "returned"
    /\ cp_result' \in generate_comprehensive_resource_plan(
                          cp_call.resource_forecast, cp_call.current_resources,
                          cp_call.days_until_surge)
    /\ UNCHANGED <<surgeVars, bdVars, prVars, agVars, svVars, poolVars, daVars,
                   psgVars, lpVars, clVars, cp_call, monVars>>

--------------------------------------------------------------------------
(* continuous_surge_monitor.main and ResourceService.get_latest_surge_data *)

\* Iterations of the monitoring loop that are followed.
MaxCycles == 2

\* The last day offset of a cycle (the code predicts offsets 0..6).
MaxAhead == 1

MonitorHospitals == <<"KEM_H1", "LOK_H2">>

\* total_admissions = int(baseline * surge_multiplier) of one prediction.
MonitorTotals == {20, 40}

\* The AQI a prediction falls back on.
DefaultAqi == 150

\* The row of one prediction; the time of writing is held as the iteration.
PredictionRow(iteration, hospital_code, day_offset, total_admissions) ==
    LET breakdown == calculate_admission_breakdown(total_admissions, DefaultAqi,
                                                   MildWeather, <<>>)
    IN  [ timestamp               |-> iteration,
          prediction_date         |-> iteration + day_offset,
          days_ahead              |-> day_offset,
          hospital_id             |-> hospital_code,
          total_admissions        |-> total_admissions,
          respiratory_admissions  |-> breakdown.respiratory,
          waterborne_admissions   |-> breakdown.waterborne,
          heat_related_admissions |-> breakdown.heat,
          trauma_admissions       |-> breakdown.trauma,
          other_admissions        |-> breakdown.other ]

\* predict_for_all_hospitals: hospital by hospital, offset by offset;
\* totals[h][d + 1] is the total predicted for hospital h at offset d.
predict_for_all_hospitals(iteration, totals) ==
    [ n \in 1..(Len(MonitorHospitals) * (MaxAhead + 1)) |->
        LET h == (n - 1) \div (MaxAhead + 1) + 1
            day_offset == (n - 1) % (MaxAhead + 1)
        IN  PredictionRow(iteration, MonitorHospitals[h], day_offset,
                          totals[h][day_offset + 1]) ]

\* latest['hospital_id'].unique()
HospitalIds(rows) == { rows[i].hospital_id : i \in 1..Len(rows) }

SurgeOfRow(hospital_data) ==
    [ respiratory  |-> hospital_data.respiratory_admissions,
      waterborne   |-> hospital_data.waterborne_admissions,
      heat_related |-> hospital_data.heat_related_admissions,
      trauma       |-> hospital_data.trauma_admissions,
      other        |-> hospital_data.other_admissions ]

\* get_latest_surge_data taking the last matching row of each hospital.
get_latest_surge_data_last(csv) ==
    LET latest == SelectSeq(csv, LAMBDA row : row.days_ahead = 0)
    IN  [ hospital_id \in HospitalIds(latest) |->
            LET of_hospital ==
                  SelectSeq(latest, LAMBDA row : row.hospital_id = hospital_id)
            IN  SurgeOfRow(of_hospital[Len(of_hospital)]) ]

\* get_latest_surge_data: the rows with days_ahead = 0 and, per hospital,
\* .iloc[0] of its rows.
get_latest_surge_data(csv) ==
    LET latest == SelectSeq(csv, LAMBDA row : row.days_ahead = 0)
    IN  [ hospital_id \in HospitalIds(latest) |->
            LET of_hospital ==
                  SelectSeq(latest, LAMBDA row : row.hospital_id = hospital_id)
            IN  SurgeOfRow(of_hospital[1]) ]

NoSurgeData == [ returned |-> FALSE, surge_by_hospital |-> <<>> ]

\* main up to its loop: the CSV is overwritten with its header alone.
MonitorInit ==
    /\ mon_pc = "loop"
    /\ mon_iteration = 0
    /\ mon_csv = <<>>
    /\ mon_result = NoSurgeData

\* One iteration whose predictions are appended to the CSV.
MonitorCycle ==
    /\ mon_pc = "loop"
    /\ mon_iteration < MaxCycles
    /\ mon_iteration' = mon_iteration + 1
    /\ \E totals \in [ 1..Len(MonitorHospitals) ->
                         [ 1..(MaxAhead + 1) -> MonitorTotals ] ] :
         mon_csv' = mon_csv \o predict_for_all_hospitals(mon_iteration', totals)
    /\ UNCHANGED <<surgeVars, bdVars, prVars, agVars, svVars, poolVars, daVars,
                   psgVars, lpVars, clVars, cpVars, mon_pc, mon_result>>

\* One iteration whose prediction cycle raises: the error is logged and
\* nothing is appended.
MonitorCycleFails ==
    /\ mon_pc = "loop"
    /\ mon_iteration < MaxCycles
    /\ mon_iteration' = mon_iteration + 1
    /\ UNCHANGED <<surgeVars, bdVars, prVars, agVars, svVars, poolVars, daVars,
                   psgVars, lpVars, clVars, cpVars, mon_pc, mon_csv, mon_result>>

\* A call of get_latest_surge_data between two appends.
GetLatestSurgeData ==
    /\ mon_pc = "loop"
    /\ mon_result' = [ returned |-> TRUE,
                       surge_by_hospital |-> get_latest_surge_data(mon_csv) ]
    /\ UNCHANGED <<surgeVars, bdVars, prVars, agVars, svVars, poolVars, daVars,
                   psgVars, lpVars, clVars, cpVars, mon_pc, mon_iteration,
                   mon_csv>>

--------------------------------------------------------------------------
(* Specifications: one per component; the other components stay idle.      *)

SurgeIdle ==
    /\ model = "None" /\ call = NoCall /\ changed = "idle"
    /\ outcome = NotCalled /\ result = NoResult

BreakdownIdle ==
    /\ bd_call = [ total |-> 0, aqi |-> 0, weather |-> <<>>, events |-> <<>> ]
    /\ bd_changed = "idle"
    /\ bd_result = [ respiratory |-> 0, waterborne |-> 0, heat |-> 0,
                     trauma |-> 0, other |-> 0 ]

PriorityIdle ==
    /\ pr_call = [ resource_type |-> "", current_stock |-> 0, required |-> 0,
                   days_until_surge |-> 0 ]
    /\ pr_pc = "idle"
    /\ pr_result = NoPriority

AgentIdle ==
    /\ ag_call = [ required_supplies |-> <<>>, current_inventory |-> <<>>,
                   days_until_surge |-> 0 ]
    /\ ag_pc = "idle"
    /\ ag_result = NoPlan

ServiceIdle ==
    /\ inventory_data = <<>>
    /\ sv_call = [ hospital_id |-> "", admissions |-> <<>> ]
    /\ sv_pc = "idle"
    /\ sv_result = <<>>

PoolIdle ==
    /\ pool_call = <<>>
    /\ pool_pc = "idle"
    /\ pool_result = NoRecommendations

AccumulatorIdle ==
    /\ da_model = "None" /\ da_call = NoDay /\ da_pc = "idle"
    /\ da_result = NoRecord

GeneratorIdle ==
    /\ psg_call = [ row |-> NoRow, total_admissions |-> 0 ]
    /\ psg_pc = "idle"
    /\ psg_result = NoDistribution

PredictCallIdle ==
    /\ lp_model = "None" /\ lp_call = NoCall /\ lp_pc = "idle"
    /\ lp_result = NoResult

ClassifierIdle ==
    /\ cl_call = 0 /\ cl_result = [ c \in Classifiers |-> "" ]

ComprehensiveIdle ==
    /\ cp_call = NoPlanCall /\ cp_pc = "idle" /\ cp_result = NoComprehensivePlan

MonitorIdle ==
    /\ mon_pc = "idle" /\ mon_iteration = 0 /\ mon_csv = <<>>
    /\ mon_result = NoSurgeData

OthersIdle ==
    /\ AccumulatorIdle /\ GeneratorIdle /\ PredictCallIdle /\ ClassifierIdle
    /\ ComprehensiveIdle /\ MonitorIdle

InitSurge ==
    /\ SurgeInit /\ OthersIdle /\ BreakdownIdle /\ PriorityIdle /\ AgentIdle
    /\ ServiceIdle /\ PoolIdle

NextSurge == Predict

SpecSurge == InitSurge /\ [][NextSurge]_vars

InitBreakdown ==
    /\ BreakdownInit /\ OthersIdle /\ SurgeIdle /\ PriorityIdle /\ AgentIdle
    /\ ServiceIdle /\ PoolIdle

NextBreakdown == Breakdown

SpecBreakdown == InitBreakdown /\ [][NextBreakdown]_vars

InitPriority ==
    /\ PriorityInit /\ OthersIdle /\ SurgeIdle /\ BreakdownIdle /\ AgentIdle
    /\ ServiceIdle /\ PoolIdle

NextPriority == Priority

SpecPriority == InitPriority /\ [][NextPriority]_vars

InitAgent ==
    /\ AgentInit /\ OthersIdle /\ SurgeIdle /\ BreakdownIdle /\ PriorityIdle
    /\ ServiceIdle /\ PoolIdle

NextAgent == SupplyNeeds

SpecAgent == InitAgent /\ [][NextAgent]_vars

InitService ==
    /\ ServiceInit /\ OthersIdle /\ SurgeIdle /\ BreakdownIdle /\ PriorityIdle
    /\ AgentIdle /\ PoolIdle

NextService == ServiceSupplyNeeds

SpecService == InitService /\ [][NextService]_vars

\* Procurement: either calculate_supply_needs, the agent's or the service's.
InitProcurement == InitAgent \/ InitService

NextProcurement == SupplyNeeds \/ ServiceSupplyNeeds

SpecProcurement == InitProcurement /\ [][NextProcurement]_vars

InitPool ==
    /\ PoolInit /\ OthersIdle /\ SurgeIdle /\ BreakdownIdle /\ PriorityIdle /\ AgentIdle
    /\ ServiceIdle

NextPool == MultiHospitalRecommendations

SpecPool == InitPool /\ [][NextPool]_vars

InitAccumulator ==
    /\ AccumulatorInit /\ SurgeIdle /\ BreakdownIdle /\ PriorityIdle
    /\ AgentIdle /\ ServiceIdle /\ PoolIdle /\ GeneratorIdle
    /\ PredictCallIdle /\ ClassifierIdle /\ ComprehensiveIdle /\ MonitorIdle

NextAccumulator == GenerateDailyData

SpecAccumulator == InitAccumulator /\ [][NextAccumulator]_vars

InitGenerator ==
    /\ GeneratorInit /\ SurgeIdle /\ BreakdownIdle /\ PriorityIdle
    /\ AgentIdle /\ ServiceIdle /\ PoolIdle /\ AccumulatorIdle
    /\ PredictCallIdle /\ ClassifierIdle /\ ComprehensiveIdle /\ MonitorIdle

NextGenerator == GenerateDiseaseDistribution

SpecGenerator == InitGenerator /\ [][NextGenerator]_vars

\* Decomposition: any of the three routines that split a total by category.
InitDecomposition == InitBreakdown \/ InitAccumulator \/ InitGenerator

NextDecomposition == Breakdown \/ GenerateDailyData \/ GenerateDiseaseDistribution

SpecDecomposition == InitDecomposition /\ [][NextDecomposition]_vars

InitPredictCall ==
    /\ PredictCallInit /\ SurgeIdle /\ BreakdownIdle /\ PriorityIdle
    /\ AgentIdle /\ ServiceIdle /\ PoolIdle /\ AccumulatorIdle
    /\ GeneratorIdle /\ ClassifierIdle /\ ComprehensiveIdle /\ MonitorIdle

NextPredictCall == PredictCompute \/ CollaboratorResponds

\* The interpreter keeps executing predict's own statements; nothing makes
\* the remote collaborator answer, and predict sets no timeout on the call.
SpecPredictCall ==
    InitPredictCall /\ [][NextPredictCall]_vars /\ WF_vars(PredictCompute)

InitClassifier ==
    /\ ClassifierInit /\ SurgeIdle /\ BreakdownIdle /\ PriorityIdle
    /\ AgentIdle /\ ServiceIdle /\ PoolIdle /\ AccumulatorIdle
    /\ GeneratorIdle /\ PredictCallIdle /\ ComprehensiveIdle /\ MonitorIdle

NextClassifier == ClassifyPredict \/ ClassifyEngine \/ ClassifyGenerator

SpecClassifier == InitClassifier /\ [][NextClassifier]_vars

InitComprehensive ==
    /\ ComprehensiveInit /\ SurgeIdle /\ BreakdownIdle /\ PriorityIdle
    /\ AgentIdle /\ ServiceIdle /\ PoolIdle /\ AccumulatorIdle
    /\ GeneratorIdle /\ PredictCallIdle /\ ClassifierIdle /\ MonitorIdle

NextComprehensive == ComprehensivePlan

SpecComprehensive == InitComprehensive /\ [][NextComprehensive]_vars

InitMonitor ==
    /\ MonitorInit /\ SurgeIdle /\ BreakdownIdle /\ PriorityIdle
    /\ AgentIdle /\ ServiceIdle /\ PoolIdle /\ AccumulatorIdle
    /\ GeneratorIdle /\ PredictCallIdle /\ ClassifierIdle /\ ComprehensiveIdle

NextMonitor == MonitorCycle \/ MonitorCycleFails \/ GetLatestSurgeData

SpecMonitor == InitMonitor /\ [][NextMonitor]_vars

\* Inventories: the two routines that are handed facility inventories.
InitInventories == InitPool \/ InitService

NextInventories == MultiHospitalRecommendations \/ ServiceSupplyNeeds

SpecInventories == InitInventories /\ [][NextInventories]_vars

\* AQI tiers: the live path (predict) or the historical path.
InitAqiTiers == InitSurge \/ InitAccumulator

NextAqiTiers == Predict \/ GenerateDailyData

SpecAqiTiers == InitAqiTiers /\ [][NextAqiTiers]_vars

--------------------------------------------------------------------------
(* Claims about SurgePredictor.predict (checked under SpecSurge)           *)

\* The effective readings predict takes from the weather mapping.
Rain(c) == Get(c.weather, "rainfall", 0)

Temp(c) == Get(c.weather, "max_temp", 0)

\* The step is a call whose inputs equal the previous call's except that
\* the AQI (rainfall, max temperature) did not go down.
RaisedAqi ==
    /\ call'.aqi >= call.aqi /\ call'.events = call.events
    /\ Rain(call') = Rain(call) /\ Temp(call') = Temp(call)

RaisedRain ==
    /\ Rain(call') >= Rain(call) /\ call'.events = call.events
    /\ call'.aqi = call.aqi /\ Temp(call') = Temp(call)

RaisedTemp ==
    /\ Temp(call') >= Temp(call) /\ call'.events = call.events
    /\ call'.aqi = call.aqi /\ Rain(call') = Rain(call)

\* C2: raising the AQI with rainfall, temperature and events held fixed never
\* lowers the multiplier predict returns; likewise for rainfall alone and for
\* the max temperature alone.
C2_Monotone ==
    [][ (RaisedAqi \/ RaisedRain \/ RaisedTemp)
            => result'.multiplier >= result.multiplier ]_vars

\* A call that only raised the AQI into the severe tier has returned.
C2_Witness ==
    /\ changed = "aqi" /\ call.aqi > 400
    /\ result.multiplier >= 150

\* No clause of predict fires for these inputs.
NoTrigger(c) ==
    /\ c.aqi <= 200 /\ Rain(c) <= 10 /\ Temp(c) <= 36
    /\ \A i \in 1..Len(c.events) :
          c.events[i] \notin {"Diwali", "Ganesh Chaturthi", "Monsoon Season"}

\* C3: the multiplier predict returns is at least 1.0 for every input, and it
\* is exactly 1.0 with severity 'none' and no risk factors when no condition
\* triggers.
C3_AtLeastOne ==
    /\ result.multiplier >= 100
    /\ NoTrigger(call) =>
          /\ result.multiplier = 100
          /\ result.severity = "none"
          /\ result.risk_factors = <<>>

\* A call on the boundary values (AQI 200, rainfall 10, 36 C, a minor event)
\* has returned.
C3_Witness ==
    /\ NoTrigger(call) /\ call.aqi = 200 /\ Rain(call) = 10 /\ Temp(call) = 36
    /\ call.events = <<"Holi">>
    /\ result.multiplier = 100

\* C7: the severity tier follows the final multiplier m: m < 1.2 none,
\* 1.2 <= m < 1.4 minor, 1.4 <= m < 1.7 moderate, 1.7 <= m < 2.0 major,
\* m >= 2.0 critical; every multiplier gets exactly one tier.
C7_SeverityTiers ==
    LET m == result.multiplier
    IN  result.severity =
            CASE m < 120 -> "none"
              [] m >= 120 /\ m < 140 -> "minor"
              [] m >= 140 /\ m < 170 -> "moderate"
              [] m >= 170 /\ m < 200 -> "major"
              [] m >= 200 -> "critical"

\* A multiplier exactly on a threshold (1.7) has been classified.
C7_Witness == result.multiplier = 170 /\ result.severity = "major"

\* The narrative of a call came from the fallback path: the collaborator was
\* not called, or its call failed.
Fallback(o) == o = NotCalled \/ o.raises

\* C8: two calls of predict with identical date, AQI, weather and events
\* return the same multiplier, severity tier and risk-factor list, and the
\* same narrative whenever both narratives come from the fallback path.
C8_Idempotent ==
    [][ call' = call =>
          /\ result'.multiplier = result.multiplier
          /\ result'.severity = result.severity
          /\ result'.risk_factors = result.risk_factors
          /\ (Fallback(outcome) /\ Fallback(outcome')
                => result'.narrative = result.narrative) ]_vars

\* A repeated call in which the collaborator failed has returned a surge.
C8_Witness ==
    /\ changed = "none" /\ outcome.raises
    /\ result.multiplier > 100 /\ result.narrative = Join(result.risk_factors)
    /\ result.risk_factors # <<>>

--------------------------------------------------------------------------
(* Claims about calculate_admission_breakdown (checked under SpecBreakdown) *)

BdSum(b) == b.respiratory + b.waterborne + b.heat + b.trauma + b.other

\* C1: for every total_admissions >= 0 and every combination of AQI, rainfall,
\* temperature and events, the five categories returned by
\* calculate_admission_breakdown sum exactly to total_admissions.
C1_SumIsTotal == BdSum(bd_result) = bd_call.total

--------------------------------------------------------------------------
(* Claims about the two calculate_supply_needs (checked under              *)
(* SpecProcurement)                                                        *)
--------------------------------------------------------------------------

\* The safety buffer, in percent, that applies to the facility of the call.
BufferOfCall == safety_buffer(inventory_data, sv_call.hospital_id)

\* The agent's half: a supply asked about is in the plan exactly when
\* max(0, floor(required * 1.15) - stock) is positive, with that to_order.
AgentToOrder ==
    (ag_pc = "returned" /\ ~ag_result.raised) =>
        /\ \A i \in 1..Len(ag_call.required_supplies) :
             LET supply == ag_call.required_supplies[i][1]
                 required == ag_call.required_supplies[i][2]
                 stock == Get(ag_call.current_inventory, supply, 0)
                 floored == (required * (100 + inventory_buffer)) \div 100
                 expected == Max(0, floored - stock)
                 items == { j \in 1..Len(ag_result.plan) :
                              ag_result.plan[j].supply = supply }
             IN  /\ expected > 0 => items # {}
                 /\ \A j \in items : ag_result.plan[j].to_order = expected
        /\ \A j \in 1..Len(ag_result.plan) : ag_result.plan[j].to_order >= 0

\* The service's half, with the worked example: a Municipal facility, base
\* need 1000 and stock 400 give 1300, 900 and CRITICAL.
ServiceToOrder ==
    sv_pc = "returned" =>
        \A i \in 1..Len(sv_result) :
            LET e == sv_result[i]
                base100 == BaseNeed(sv_call.admissions, SUPPLY_REQUIREMENTS[i],
                                    Len(Categories))
                floored == (base100 * (100 + BufferOfCall)) \div 10000
            IN  /\ e.projected_need = floored
                /\ e.quantity_to_order = Max(0, floored - e.current_stock)
                /\ e.quantity_to_order >= 0
                /\ (BufferOfCall = 30 /\ base100 = 100000 /\ e.current_stock = 400)
                       => /\ e.projected_need = 1300
                          /\ e.quantity_to_order = 900
                          /\ e.status = "CRITICAL"

\* C4: for every supply item the quantity to order equals
\* max(0, floor(base_need * (1 + buffer)) - current_stock) and is never
\* negative, in ResourceService.calculate_supply_needs (base_need the sum
\* over the five categories of admissions times rate) and in the agent's
\* calculate_supply_needs (base_need = required) alike; a Municipal facility
\* with base need 1000 and stock 400 gets projected_need 1300, 900 to order
\* and status CRITICAL.
C4_ToOrder == AgentToOrder /\ ServiceToOrder

\* C9: every plan item of the agent's calculate_supply_needs has
\* delivery_possible = (days_until_surge > lead_time_days) and
\* order_immediately = (priority > 80) OR NOT delivery_possible, so an item
\* with days_until_surge <= lead_time_days is flagged whatever its priority.
C9_OrderImmediately ==
    ag_pc = "returned" =>
        \A j \in 1..Len(ag_result.plan) :
            LET item == ag_result.plan[j]
                days == ag_call.days_until_surge
            IN  /\ item.lead_time_days = lead_times[item.supply]
                /\ item.delivery_possible = (days > item.lead_time_days)
                /\ item.order_immediately
                       = (FracLess(Frac(80, 1), item.priority)
                            \/ ~item.delivery_possible)
                /\ days <= item.lead_time_days => item.order_immediately

\* An item that cannot arrive in time is flagged although its priority is
\* not above 80.
C9_Witness ==
    /\ ag_pc = "returned"
    /\ \E j \in 1..Len(ag_result.plan) :
         /\ ag_call.days_until_surge = ag_result.plan[j].lead_time_days
         /\ ~FracLess(Frac(80, 1), ag_result.plan[j].priority)
         /\ ag_result.plan[j].order_immediately

--------------------------------------------------------------------------
(* Claims about calculate_resource_priority (checked under SpecPriority)   *)
--------------------------------------------------------------------------

\* 100 * shortage_ratio * time_urgency * clinical_criticality as the claim
\* states it, as a numerator and a denominator.
StatedPriority(c) ==
    LET lead == Get(lead_times, c.resource_type, 0)
        late == c.days_until_surge - lead
        shortage ==
            IF c.required = 0 \/ c.required - c.current_stock < 0
            THEN <<0, 1>>
            ELSE <<c.required - c.current_stock, c.required>>
        urgency ==
            IF late <= 0 THEN <<1, 1>>
            ELSE IF 7 - late < 0 THEN <<0, 1>>
            ELSE <<7 - late, 7>>
        criticality == Get(clinical_criticality, c.resource_type, 50)
    IN  [ num |-> 100 * shortage[1] * urgency[1] * criticality,
          den |-> shortage[2] * urgency[2] * 100 ]

\* C10: calculate_resource_priority returns 100 * shortage_ratio *
\* time_urgency * clinical_criticality, with shortage_ratio =
\* max(0, (required - stock) / required) (0 when required = 0) and
\* time_urgency = 1 when days_until_surge <= lead time, else
\* max(0, 1 - (days_until_surge - lead time) / 7), and the result is in
\* [0, 100].
C10_PriorityFormula ==
    pr_pc = "returned" =>
        /\ pr_result.num * StatedPriority(pr_call).den
               = StatedPriority(pr_call).num * pr_result.den
        /\ 0 <= pr_result.num
        /\ pr_result.num <= 100 * pr_result.den

\* A partial shortage scored inside the lead time, and so at full urgency.
C10_Witness ==
    /\ pr_pc = "returned"
    /\ pr_call.days_until_surge > 0
    /\ pr_call.days_until_surge <= Get(lead_times, pr_call.resource_type, 0)
    /\ pr_call.current_stock > 0
    /\ pr_result.num > 0

--------------------------------------------------------------------------
(* Claims about generate_multi_hospital_recommendations (checked under     *)
(* SpecPool)                                                               *)
--------------------------------------------------------------------------

\* What facility i holds beyond what it requires of resource type t, a type
\* it does not list counting as 0.
Excess(i, t) ==
    Get(pool_call[i].available_resources, t, 0)
        - Get(pool_call[i].required_resources, t, 0)

RECURSIVE SumOver(_, _, _)
SumOver(Amount(_, _), t, k) ==
    IF k = 0 THEN 0 ELSE SumOver(Amount, t, k - 1) + Amount(k, t)

SurplusOf(i, t) == Max(0, Excess(i, t))

ShortageOf(i, t) == Max(0, -Excess(i, t))

RequiredOf(i, t) == Get(pool_call[i].required_resources, t, 0)

AvailableOf(i, t) == Get(pool_call[i].available_resources, t, 0)

\* C5: generate_multi_hospital_recommendations reports a pooling opportunity
\* for a resource type if and only if some facility has a surplus of it
\* (available > required) and some other facility has a shortage of it
\* (required > available), and its can_transfer is the smaller of the sum of
\* all surpluses and the sum of all shortages of that type.
C5_PoolingIff ==
    pool_pc = "returned" =>
        \A t \in PoolResourceTypes :
            LET n == Len(pool_call)
                reported == { o \in pool_result.pooling_opportunities :
                                o.resource = t }
            IN  /\ (reported # {})
                       <=> \E i, j \in 1..n :
                             i # j /\ Excess(i, t) > 0 /\ Excess(j, t) < 0
                /\ \A o \in reported :
                     o.can_transfer = Min(SumOver(SurplusOf, t, n),
                                          SumOver(ShortageOf, t, n))

\* C6: for every resource type the reported network procurement need, an
\* absent entry counting as 0, is max(0, total_required - total_available)
\* with both totals taken over all facilities; a facility short of 500 PPE
\* kits and another with 800 to spare give can_transfer 500 and need 0.
C6_NetworkNeed ==
    pool_pc = "returned" =>
        \A t \in PoolResourceTypes :
            LET n == Len(pool_call)
            IN  Get(pool_result.network_procurement_needed, t, 0)
                    = Max(0, SumOver(RequiredOf, t, n)
                                 - SumOver(AvailableOf, t, n))

--------------------------------------------------------------------------
(* Claims about ResourceService.calculate_supply_needs (checked under      *)
(* SpecService)                                                            *)
--------------------------------------------------------------------------

\* C11: each item is classified by coverage = current_stock / projected_need
\* (100% when projected_need = 0): CRITICAL with ORDER_IMMEDIATELY below
\* 50%, LOW with ORDER_IMMEDIATELY from 50% to 80% inclusive, and OK with
\* None only strictly above 80%.
C11_StatusTiers ==
    sv_pc = "returned" =>
        \A i \in 1..Len(sv_result) :
            LET e == sv_result[i]
                stock100 == e.current_stock * 100
                need == e.projected_need
                tier == IF need = 0 THEN "OK"
                        ELSE IF stock100 < 50 * need THEN "CRITICAL"
                        ELSE IF stock100 <= 80 * need THEN "LOW"
                        ELSE "OK"
            IN  /\ e.status = tier
                /\ e.action_required
                       = (IF tier = "OK" THEN "None" ELSE "ORDER_IMMEDIATELY")

\* The buffer, in percent, stated for the facility of the call: 30 for a
\* Municipal one, 20 for a Private one, and otherwise when its class is
\* not known (it is absent from the inventory or recorded as 'Unknown').
StatedBuffer(otherwise) ==
    LET id == sv_call.hospital_id
        class == IF id \in DOMAIN inventory_data
                 THEN inventory_data[id].type ELSE "Unknown"
    IN  IF class = "Municipal" THEN 30
        ELSE IF class = "Private" THEN 20
        ELSE otherwise

\* Every projected_need is the base need raised by the stated buffer.
BufferApplied(otherwise) ==
    sv_pc = "returned" =>
        \A i \in 1..Len(sv_result) :
            sv_result[i].projected_need \in
                ProjectedNeeds(sv_call.admissions, SUPPLY_REQUIREMENTS[i],
                               StatedBuffer(otherwise))

\* C12 as stated: the safety buffer is 30% for a Municipal facility, 20% for
\* a Private facility, and 15% when the facility's class is not known.
C12_BufferGeneric == BufferApplied(15)

\* C12 as amended: the safety buffer is 30% for a Municipal facility, 20%
\* for a Private facility, and 20% as well when the facility's class is not
\* known (absent from the inventory, or recorded with type 'Unknown').
C12_BufferByClass == BufferApplied(20)

\* A facility recorded as 'Unknown', or one absent from the inventory, with
\* a base need of 1000 has had 1200 projected.
C12_Witness ==
    /\ sv_pc = "returned"
    /\ sv_call.hospital_id \in {"NEW_H99", "LIL_H6"}
    /\ \E i \in 1..Len(sv_result) :
         /\ BaseNeed(sv_call.admissions, SUPPLY_REQUIREMENTS[i],
                     Len(Categories)) = 100000
         /\ sv_result[i].projected_need = 1200

--------------------------------------------------------------------------
(* Claims about the decompositions of a day's admissions (checked under    *)
(* SpecAccumulator and SpecDecomposition)                                  *)

DailyCategorySum ==
    da_result.respiratory_admissions + da_result.waterborne_admissions
    + da_result.heat_admissions + da_result.trauma_admissions
    + da_result.other_admissions

\* C13: in the record generate_daily_data appends for a day, whatever the
\* total and whichever weights were boosted, the five category counts add up
\* exactly to total_admissions.
C13_DailySumIsTotal ==
    da_pc = "returned" => DailyCategorySum = da_result.total_admissions

\* A day with boosted weights whose four truncated counts lose something, so
\* that `other` holds more than its own weight's share.
C13_Witness ==
    /\ da_pc = "returned"
    /\ da_call.aqi > 200 /\ da_call.rain > 20
    /\ da_result.total_admissions > 0
    /\ LET w == Weights(da_call.aqi, da_call.rain, da_call.temp,
                        Get(da_call.event_data, "has_event", FALSE))
       IN  da_result.other_admissions * TotalWeight(w)
               > da_result.total_admissions * w.other

\* C14: none of the three decompositions yields a negative `other` count,
\* whatever the total (>= 0) and whichever conditions are triggered.
C14_OtherNonNegative ==
    /\ bd_changed # "idle" => bd_result.other >= 0
    /\ da_pc = "returned" => da_result.other_admissions >= 0
    /\ psg_pc = "returned" => psg_result.other >= 0

\* The generator's distribution with all four conditions triggered.
C14_Witness ==
    /\ psg_pc = "returned"
    /\ psg_call.row.avg_aqi > 200 /\ psg_call.row.rainfall_mm > 30
    /\ psg_call.row.temperature_c > 36 /\ psg_call.row.has_event
    /\ psg_call.total_admissions = MaxTotal
    /\ psg_result.other >= 0
    /\ psg_result.respiratory + psg_result.waterborne + psg_result.heat_related
          + psg_result.trauma > 0

--------------------------------------------------------------------------
(* Claims about the AQI tiers (checked under SpecAqiTiers)                 *)

\* What predict adds for the AQI, in thousandths: the one tier the value
\* falls in, a boundary value belonging to the tier below it.
StatedAqiTier(aqi) ==
    IF aqi <= 200 THEN 0
    ELSE IF aqi <= 300 THEN 100
    ELSE IF aqi <= 400 THEN 200
    ELSE 500

\* C15: predict adds 0 for AQI <= 200, 0.1 for 200 < AQI <= 300, 0.2 for
\* 300 < AQI <= 400 and 0.5 above 400, one tier only (one AQI label at most);
\* the historical path of generate_daily_data also compares strictly, so AQI
\* of exactly 200 or 300 gets the lower tier's multiplier.
C15_AqiBoundaries ==
    /\ changed # "idle" =>
          LET rainfall == Get(call.weather, "rainfall", 0)
              max_temp == Get(call.weather, "max_temp", 0)
          IN  /\ result.multiplier =
                    Round2(1000 + StatedAqiTier(call.aqi) + RainBoost(rainfall)
                           + TempBoost(max_temp) + EventBoost(call.events))
              /\ Len(result.risk_factors) =
                    (IF call.aqi <= 200 THEN 0 ELSE 1)
                    + Len(RainLabels(rainfall)) + Len(TempLabels(max_temp))
                    + Len(EventLabels(call.events))
    /\ da_pc = "returned" =>
          da_result.surge_multiplier =
              100 + (IF da_call.aqi <= 200 THEN 0
                     ELSE IF da_call.aqi <= 300 THEN 20 ELSE 50)
                  + (IF da_call.rain > 50 THEN 30 ELSE 0)
                  + (IF da_call.temp > 36 THEN 20 ELSE 0)
                  + (IF Get(da_call.event_data, "has_event", FALSE) THEN 20 ELSE 0)

\* A historical day with AQI exactly 300 and nothing else raised: only the
\* 0.2 of the tier below is added.
C15_Witness ==
    /\ da_pc = "returned"
    /\ da_call.aqi = 300
    /\ da_result.surge_multiplier = 120

--------------------------------------------------------------------------
(* Claims about the narrative of SurgePredictor.predict (checked under     *)
(* SpecSurge)                                                              *)

\* C16: when no collaborator is configured, or its call raises, the narrative
\* is the risk-factor labels joined by ", " if there is at least one label,
\* and "Normal operations" if there is none.
C16_FallbackNarrative ==
    (changed # "idle" /\ (model = "None" \/ outcome.raises)) =>
        result.narrative = (IF result.risk_factors # <<>>
                            THEN Join(result.risk_factors)
                            ELSE <<"Normal operations">>)

\* C17: a failing collaborator call does not keep predict from returning, and
\* the multiplier, severity and risk_factors it returns are those the
\* predictor without a collaborator returns for the same arguments, whether
\* the collaborator answered, raised or is absent.
C17_FailureContained ==
    changed # "idle" =>
        LET absent == predict("None", call.date, call.aqi, call.weather,
                              call.events, NotCalled)
        IN  /\ result.multiplier = absent.multiplier
            /\ result.severity = absent.severity
            /\ result.risk_factors = absent.risk_factors

\* A call in which the collaborator raised and the numbers show a surge.
C17_Witness ==
    /\ changed # "idle"
    /\ model = "gemini"
    /\ outcome.raises
    /\ result.multiplier > 100
    /\ result.risk_factors # <<>>
    /\ result.narrative = Join(result.risk_factors)

--------------------------------------------------------------------------
(* Claims about the termination of SurgePredictor.predict (checked under   *)
(* SpecPredictCall)                                                        *)

\* C18: every call of predict eventually returns, even if the collaborator
\* never answers.
C18_EventuallyReturns == (lp_pc = "called") ~> (lp_pc = "returned")

--------------------------------------------------------------------------
(* Claims about the procurement plan of the agent's calculate_supply_needs *)
(* (checked under SpecAgent)                                               *)

\* Position of a supply in required_supplies (its names are distinct).
PositionOf(supply) ==
    CHOOSE i \in 1..Len(ag_call.required_supplies) :
        ag_call.required_supplies[i][1] = supply

\* C19: the returned plan is in descending order of priority, and items of
\* equal priority are in the order of their supplies in required_supplies.
C19_SortedStable ==
    (ag_pc = "returned" /\ ~ag_result.raised) =>
        \A j, k \in 1..Len(ag_result.plan) :
            j < k =>
                /\ ~FracLess(ag_result.plan[j].priority, ag_result.plan[k].priority)
                /\ ag_result.plan[j].priority = ag_result.plan[k].priority
                       => PositionOf(ag_result.plan[j].supply)
                            < PositionOf(ag_result.plan[k].supply)

\* A plan of two items of equal priority, kept in the order required.
C19_Witness ==
    /\ ag_pc = "returned" /\ ~ag_result.raised
    /\ Len(ag_result.plan) = 2
    /\ ag_result.plan[1].priority = ag_result.plan[2].priority
    /\ ag_result.plan[1].supply # ag_result.plan[2].supply
    /\ FracLess(Frac(0, 1), ag_result.plan[1].priority)

\* C20: calculate_supply_needs never raises; every required supply that is
\* short is planned, with stock 0 when current_inventory does not list it,
\* also when the supply has no configured lead time.
C20_NoException ==
    ag_pc = "returned" =>
        /\ ~ag_result.raised
        /\ \A i \in 1..Len(ag_call.required_supplies) :
              LET supply_type == ag_call.required_supplies[i][1]
                  required == ag_call.required_supplies[i][2]
                  current == Get(ag_call.current_inventory, supply_type, 0)
              IN  Shortage(required, current) > 0 =>
                      \E j \in 1..Len(ag_result.plan) :
                          /\ ag_result.plan[j].supply = supply_type
                          /\ ag_result.plan[j].current_stock = current

--------------------------------------------------------------------------
(* Claims about the inventories handed to the planners (checked under      *)
(* SpecInventories)                                                        *)

\* C21: no call of generate_multi_hospital_recommendations or of the
\* service's calculate_supply_needs changes the inventories it is given: the
\* facilities' required and available mappings and the service's
\* inventory_data are after every step what they were before it.
C21_InventoriesUnchanged ==
    [][pool_call' = pool_call /\ inventory_data' = inventory_data]_vars

\* The pooling call has returned a transfer recommendation.
C21_Witness ==
    /\ pool_pc = "returned"
    /\ pool_result.pooling_opportunities # {}
    /\ \E i \in DOMAIN pool_call :
          pool_call[i].available_resources # pool_call[i].required_resources

--------------------------------------------------------------------------
(* Further claims about generate_multi_hospital_recommendations (checked   *)
(* under SpecPool)                                                         *)

\* C29: for every resource type with a pooling opportunity, total_surplus
\* minus total_shortage equals the returned total_available minus the
\* returned total_requirements of that type, and total_shortage minus
\* can_transfer equals the network procurement need returned for it (0 when
\* the type has no entry).
C29_PoolingBalance ==
    pool_pc = "returned" =>
        \A o \in pool_result.pooling_opportunities :
            /\ o.total_surplus - o.total_shortage
                 = pool_result.total_available[o.resource]
                     - pool_result.total_requirements[o.resource]
            /\ o.total_shortage - o.can_transfer
                 = Get(pool_result.network_procurement_needed, o.resource, 0)

\* A pooling opportunity that leaves part of the shortage to procure.
C29_Witness ==
    /\ pool_pc = "returned"
    /\ \E o \in pool_result.pooling_opportunities :
          /\ o.total_shortage > o.total_surplus
          /\ o.can_transfer = o.total_surplus
          /\ o.resource \in DOMAIN pool_result.network_procurement_needed

--------------------------------------------------------------------------
(* Further claims about ResourceService.calculate_supply_needs (checked    *)
(* under SpecService)                                                      *)

\* C30 as stated: in every supplies_status entry action_required is "None"
\* exactly when quantity_to_order is 0.
C30_ActionIffOrder ==
    sv_pc = "returned" =>
        \A i \in 1..Len(sv_result) :
            (sv_result[i].action_required = "None")
                <=> (sv_result[i].quantity_to_order = 0)

\* C30 as amended: an entry with nothing to order has action_required
\* "None", and an entry flagged ORDER_IMMEDIATELY has a positive quantity to
\* order.
C30_NoOrderNoAction ==
    sv_pc = "returned" =>
        \A i \in 1..Len(sv_result) :
            /\ sv_result[i].quantity_to_order = 0
                    => sv_result[i].action_required = "None"
            /\ sv_result[i].action_required = "ORDER_IMMEDIATELY"
                    => sv_result[i].quantity_to_order > 0

\* A status list with an item whose stock exactly covers a positive need and
\* an item flagged for ordering.
C30_Witness ==
    /\ sv_pc = "returned"
    /\ \E i \in 1..Len(sv_result) :
          /\ sv_result[i].projected_need > 0
          /\ sv_result[i].current_stock = sv_result[i].projected_need
          /\ sv_result[i].action_required = "None"
    /\ \E i \in 1..Len(sv_result) :
          sv_result[i].action_required = "ORDER_IMMEDIATELY"

--------------------------------------------------------------------------
(* A worked scenario of SurgePredictor.predict (checked under SpecSurge)   *)

SevereAqiOnly ==
    /\ changed # "idle"
    /\ call.aqi = 450 /\ call.weather = MildWeather /\ call.events = <<>>

\* C25 as stated: AQI 450 with no rain, 30 C and no events gives a multiplier
\* of 1.5 and a severity of 'major' or 'critical'.
C25_SevereAqiMajor ==
    SevereAqiOnly =>
        /\ result.multiplier = 150
        /\ result.severity \in {"major", "critical"}

\* C25 as amended: the multiplier is 1.5 and the severity is 'moderate'.
C25_SevereAqiModerate ==
    SevereAqiOnly =>
        /\ result.multiplier = 150
        /\ result.severity = "moderate"

C25_Witness ==
    /\ SevereAqiOnly
    /\ result.risk_factors = << Label("Severe AQI", "450") >>

--------------------------------------------------------------------------
(* Claims about the severity classifiers (checked under SpecClassifier)    *)

\* 'none' and 'normal' name the same tier.
Tier(name) == IF name = "normal" THEN "none" ELSE name

\* C24: whatever the multiplier, the tiers returned by predict's
\* classification, by _classify_surge_level and by the generator's
\* classification are the same, 'none' and 'normal' counting as equal.
C24_ClassifiersAgree ==
    \A c, e \in Classifiers :
        (cl_result[c] # "" /\ cl_result[e] # "")
            => Tier(cl_result[c]) = Tier(cl_result[e])

\* C22: the action timeline is in ascending order of days_from_now; every
\* procurement action is max(0, days_until_surge - lead_time_days - 1) days
\* from now and URGENT exactly when its item's priority exceeds 80, NORMAL
\* otherwise; every staff deployment is max(0, days_until_surge - 2) days
\* from now and HIGH.
C22_TimelineOrdered ==
    cp_pc = "returned" =>
      LET timeline == cp_result.action_timeline
          days == cp_result.days_until_surge
      IN  /\ \A i \in 1..Len(timeline) : \A j \in i..Len(timeline) :
                timeline[i].days_from_now <= timeline[j].days_from_now
          /\ \A i \in 1..Len(timeline) :
                IF timeline[i].category = "Supply Procurement"
                THEN \E k \in 1..Len(cp_result.supply_procurement) :
                       LET item == cp_result.supply_procurement[k]
                       IN  /\ timeline[i].action[2] = item.supply
                           /\ timeline[i].days_from_now =
                                Max(0, days - lead_times[item.supply] - 1)
                           /\ (timeline[i].priority = "URGENT")
                                <=> FracLess(Frac(80, 1), item.priority)
                           /\ timeline[i].priority \in {"URGENT", "NORMAL"}
                ELSE /\ timeline[i].category = "Staff Deployment"
                     /\ timeline[i].days_from_now = Max(0, days - 2)
                     /\ timeline[i].priority = "HIGH"

\* A returned plan whose timeline holds an urgent order, a normal order and a
\* deployment, on more than one day, and not in the order they were added.
C22_Witness ==
    /\ cp_pc = "returned"
    /\ \E i, j, k \in 1..Len(cp_result.action_timeline) :
         /\ cp_result.action_timeline[i].priority = "URGENT"
         /\ cp_result.action_timeline[j].priority = "NORMAL"
         /\ cp_result.action_timeline[k].priority = "HIGH"
         /\ cp_result.action_timeline[i].days_from_now
              # cp_result.action_timeline[k].days_from_now
    /\ cp_result.action_timeline #
         TimelineEntries(cp_result.staff_allocation,
                         cp_result.supply_procurement,
                         cp_result.days_until_surge)

\* The coverage of a staff role, capped at 100.
CappedStaffScore(details) ==
    FracMin(Frac(100, 1),
            IF details.required > 0
            THEN Frac((details.available + details.to_deploy) * 100,
                      details.required)
            ELSE Frac(100, 1))

\* C23: the readiness score is 0.6 x the mean staff coverage + 0.4 x the mean
\* supply coverage, every coverage capped at 100, and so lies in [0, 100].
C23_ReadinessCapped ==
    cp_pc = "returned" =>
      LET staff == cp_result.staff_allocation
          supply == cp_result.supply_procurement
          capped ==
            FracAdd(
              FracMul(MeanOr100([ i \in 1..Len(staff) |->
                                    CappedStaffScore(staff[i]) ]),
                      Frac(6, 10)),
              FracMul(MeanOr100([ j \in 1..Len(supply) |->
                                    SupplyScore(supply[j]) ]),
                      Frac(4, 10)))
      IN  /\ cp_result.readiness_score \in RoundTenths(capped)
          /\ cp_result.readiness_score \in 0..1000

\* C27: the readiness score of a returned plan is at least 100, so the
\* Staff Deployment recommendation never takes the priority HIGH.
C27_ReadinessAtLeastFull ==
    cp_pc = "returned" =>
      /\ cp_result.readiness_score >= 1000
      /\ StaffDeploymentPriority(cp_result) = "MEDIUM"

\* A returned plan with staff to deploy in a role and supplies to order.
C27_Witness ==
    /\ cp_pc = "returned"
    /\ \E i \in 1..Len(cp_result.staff_allocation) :
         cp_result.staff_allocation[i].to_deploy > 0
    /\ \E j \in 1..Len(cp_result.supply_procurement) :
         /\ cp_result.supply_procurement[j].to_order > 0
         /\ cp_result.supply_procurement[j].current_stock > 0

\* C28: every supply item flagged order_immediately has its order in the
\* timeline at days_from_now = 0.
C28_ImmediateOrdersToday ==
    cp_pc = "returned" =>
      \A k \in 1..Len(cp_result.supply_procurement) :
        LET item == cp_result.supply_procurement[k]
        IN  item.order_immediately =>
              /\ \E i \in 1..Len(cp_result.action_timeline) :
                   cp_result.action_timeline[i].action = <<"Order ", item.supply>>
              /\ \A i \in 1..Len(cp_result.action_timeline) :
                   cp_result.action_timeline[i].action = <<"Order ", item.supply>>
                     => cp_result.action_timeline[i].days_from_now = 0

\* A returned plan with an item flagged for its priority alone, delivery
\* still being possible, and another item that is not flagged.
C28_Witness ==
    /\ cp_pc = "returned"
    /\ \E k, l \in 1..Len(cp_result.supply_procurement) :
         /\ cp_result.supply_procurement[k].order_immediately
         /\ cp_result.supply_procurement[k].delivery_possible
         /\ ~cp_result.supply_procurement[l].order_immediately

\* C26: whenever get_latest_surge_data returns, it gives for every hospital
\* with a days_ahead = 0 prediction in the CSV the category admissions of the
\* one appended last.
C26_LatestIsMostRecent ==
    [][mon_result' # mon_result =>
         mon_result'.surge_by_hospital = get_latest_surge_data_last(mon_csv)]_vars

====
